---- MODULE Spec2Model ----
(***************************************************************************)
(* Adaptive testing engine of skill_core: the Rasch estimator (rasch.py),  *)
(* the Domain State with its ladder and open-response updates (engine.py), *)
(* the item selection policy (policy.py) and the session orchestrator      *)
(* (engine.py, AdaptiveSession).                                           *)
(*                                                                         *)
(* Python floats are modelled in fixed point.  Abilities, probabilities,   *)
(* credits and standard errors are integers in thousandths (Milli = 1.0).  *)
(* Fisher information is an integer in units of 1e-7 (InfoOne = 1.0), so   *)
(* that the estimator's floor _EPS = 1e-6 and a fifth of it are both       *)
(* representable.  Integers stay below 2^31.                               *)
(*                                                                         *)
(* Spec is a session: next_item and answer_current in any order, over the  *)
(* deployments of Scenarios.  SpecDomain calls the two update functions of *)
(* a Domain State directly, as the ladder and residual tests do.           *)
(* SpecCareless is a session whose client sends malformed answers and      *)
(* answers with nothing pending, SpecAllCorrect a session answered         *)
(* correctly throughout, SpecReplay builds a second session with the same  *)
(* seed while time passes, SpecReport adds finalize to a session, and      *)
(* SpecServer is the session table and process environment the API         *)
(* handlers share.  SpecTight is a short session whose cap leaves no step  *)
(* over, SpecDeep a long session on a bank deep enough for a second OPEN   *)
(* item, and SpecHanded a session whose pending item the caller may set.   *)
(* SpecAskAgain is a long session whose client asks for the next item      *)
(* while one is pending, SpecQuota a session whose cap is at, just below   *)
(* or just above the minima plus the self-report quota, and SpecParallel a *)
(* session whose answers are handled by two calls of answer_current at     *)
(* once.                                                                   *)
(***************************************************************************)
EXTENDS Integers, Sequences, FiniteSets, TLC

\* ---------------------------------------------------------------- units

\* 1.0 of a float held in thousandths.
Milli == 1000
\* 1.0 of a product of two thousandths.
Micro == Milli * Milli
\* 1.0 of an information total (units of 1e-7).
InfoOne == 10 * Micro

None == "None"

Max(a, b) == IF a >= b THEN a ELSE b
Min(a, b) == IF a <= b THEN a ELSE b

\* Division rounding toward zero, b > 0 (the sign-symmetric float division).
TDiv(a, b) == IF a >= 0 THEN a \div b ELSE -((-a) \div b)

\* x * r / 1000 for x >= 0 and 0 <= r <= Milli, without leaving 32 bits.
MulMilli(x, r) == (x \div Milli) * r + ((x % Milli) * r) \div Milli

\* a / b in thousandths for 0 <= a, 0 < b, without leaving 32 bits.
Ratio(a, b) ==
    IF a < 2 * Micro THEN (a * Milli) \div b ELSE a \div Max(b \div Milli, 1)

RECURSIVE MulDivQR(_, _, _)
MulDivQR(a, b, c) ==
    IF a = 0 THEN <<0, 0>>
    ELSE LET h == MulDivQR(a \div 2, b, c)
             r == 2 * h[2] + (a % 2) * b
         IN  <<2 * h[1] + r \div c, r % c>>

\* floor(a * b / c) for 0 <= a, 0 <= b < c, without leaving 32 bits.
MulDiv(a, b, c) == MulDivQR(a, b, c)[1]

RECURSIVE isqrt_iter(_, _)
isqrt_iter(n, x) ==
    LET y == (x + n \div x) \div 2 IN IF y >= x THEN x ELSE isqrt_iter(n, y)

\* Integer square root (Newton's iteration from above).
isqrt(n) == IF n <= 0 THEN 0 ELSE isqrt_iter(n, Min(n, 46340))

RECURSIVE CountTrue(_)
CountTrue(s) ==
    IF s = <<>> THEN 0 ELSE (IF Head(s) THEN 1 ELSE 0) + CountTrue(Tail(s))

\* Python s[-n:] for n > 0.
LastN(s, n) == IF Len(s) <= n THEN s ELSE SubSeq(s, Len(s) - n + 1, Len(s))

\* ------------------------------------------------------------ config.py

RASCH_PRIOR_VAR == 1000
RASCH_ETA == 1000

CAP_SHORT == 104
CAP_LONG == 160

PASS_RULE_SHORT == [need |-> 2, window |-> 3]
PASS_RULE_LONG == [need |-> 3, window |-> 4]
DEMOTE_RULE == [need |-> 2, window |-> 3]

SE_TARGET_SHORT == 350
SE_TARGET_LONG == 250

OBJ_MIN_SHORT == 4
OBJ_MAX_SHORT == 12
OBJ_MIN_LONG == 8
OBJ_MAX_LONG == 16

LEVEL_MIN == -2
LEVEL_MAX == 2

OPEN_ENABLED_LONG == TRUE
OPEN_GATE1_MIN_OBJ == 4
OPEN_GATE1_SE_MAX == 450
OPEN_GATE2_SE_MAX == 300
OPEN_GATE2_MIN_R1 == 600
OPEN_LEVELS == <<-1, 0, 1>>
A_OPEN == 500
ETA_OPEN == 100
DELTA_OPEN_MAX == 300
OPEN_INFO_CAP_RATIO == 200
OPEN_MIN_WORDS == 80
OPEN_MIN_RUBRIC == 600
OPEN_LATENCY_P10_MS == 1500
OPEN_Z_SHIFT == 500

SR_PER_DOMAIN_SHORT == 1
SR_PER_DOMAIN_LONG == 2
SR_START_SHIFT == [low |-> -1, mid |-> 0, high |-> 1]

\* ------------------------------------------------------------- rasch.py

\* _EPS = 1e-6 as an information total.
EPS == 10

\* e^-n in millionths, n a whole number.
ExpNegInt(n) ==
    CASE n = 0 -> 1000000 [] n = 1 -> 367879 [] n = 2 -> 135335
      [] n = 3 -> 49787 [] n = 4 -> 18316 [] n = 5 -> 6738
      [] n = 6 -> 2479 [] n = 7 -> 912 [] n = 8 -> 335
      [] n = 9 -> 123 [] n = 10 -> 45 [] n = 11 -> 17
      [] n = 12 -> 6 [] n = 13 -> 2 [] n = 14 -> 1 [] OTHER -> 0

\* e^-(f/1000) in millionths for 0 <= f < 1000 (Taylor series).
ExpNegFrac(f) ==
    LET t1 == f * Milli
        t2 == (t1 * f) \div (2 * Milli)
        t3 == (t2 * f) \div (3 * Milli)
        t4 == (t3 * f) \div (4 * Milli)
        t5 == (t4 * f) \div (5 * Milli)
        t6 == (t5 * f) \div (6 * Milli)
        t7 == (t6 * f) \div (7 * Milli)
        t8 == (t7 * f) \div (8 * Milli)
    IN  Micro - t1 + t2 - t3 + t4 - t5 + t6 - t7 + t8

\* math.exp(-y) in millionths for y >= 0 in thousandths.
ExpNeg(y) ==
    ((ExpNegFrac(y % Milli) \div 100) * (ExpNegInt(y \div Milli) \div 100) + 50)
        \div 100

\* sigma(x) = 1 / (1 + e^-x), both halves of the real line as in the code.
sigma(x) ==
    IF x >= 0
    THEN LET z == ExpNeg(x)
         IN  (Milli * Micro + (Micro + z) \div 2) \div (Micro + z)
    ELSE LET z == ExpNeg(-x)
         IN  (z * Milli + (Micro + z) \div 2) \div (Micro + z)

rasch_p(theta, b) == sigma(theta - b)

\* A faulty item information, the sign lost: answers would take information
\* away.
item_info_negated(theta, b, a) ==
    LET p == rasch_p(theta, b)
    IN  -(((((a * a) \div Milli) * (p * (Milli - p))) \div Milli) * 10)

\* a^2 * p * (1 - p), floored at 0, as an information total.
item_info(theta, b, a) ==
    LET p == rasch_p(theta, b)
        info == ((((a * a) \div Milli) * (p * (Milli - p))) \div Milli) * 10
    IN  Max(info, 0)

\* One damped Newton/MAP step for the ability.
map_update(theta, b, correct, a, prior_var, eta) ==
    LET p == rasch_p(theta, b)
        grad == (((IF correct THEN Milli ELSE 0) - p) * a) \div Milli
        info == ((((a * a) \div Milli) * (p * (Milli - p))) \div Milli) * 10
                  + (InfoOne \div Max(prior_var, 1)) * Milli
        step == TDiv(((eta * grad) \div Milli) * Micro, Max(info, EPS) \div 10)
    IN  theta + step

\* 1 / sqrt(max(info_total, _EPS)) in thousandths.
se_from_info(info_total) == Micro \div isqrt(Max(info_total, EPS) \div 10)

\* ------------------------------------------------- engine.py: DomainState

RECENT_WINDOW_LIMIT ==
    Max(PASS_RULE_SHORT.window, Max(PASS_RULE_LONG.window, DEMOTE_RULE.window))

\* A faulty clamp that lets every level through.
unclamped_level(level) == level

clamp_level(level) == Max(LEVEL_MIN, Min(LEVEL_MAX, level))

\* The dataclass defaults.  level_stats, max_diff and the reliability flags
\* are bookkeeping no decision reads; they are left out.
DomainState ==
    [ mcq_correct |-> 0, mcq_total |-> 0, sjt_sum |-> 0, sjt_total |-> 0,
      open_sum |-> 0, open_total |-> 0, sr_sum |-> 0, sr_total |-> 0,
      theta |-> 0, info_total |-> InfoOne, se |-> Milli, level |-> 0,
      recent_window |-> <<>>, b_peak |-> 0, b_stable |-> 0,
      obj_count |-> 0, sr_count |-> 0, open_count |-> 0,
      open_contrib |-> <<>>, obj_done |-> FALSE, level_entry_seen |-> 0,
      obj_info_total |-> 0, open_info_total |-> 0 ]

run_parameters(rt) ==
    IF rt = "short"
    THEN [pass_rule |-> PASS_RULE_SHORT, se_target |-> SE_TARGET_SHORT,
          obj_min |-> OBJ_MIN_SHORT, obj_max |-> OBJ_MAX_SHORT]
    ELSE [pass_rule |-> PASS_RULE_LONG, se_target |-> SE_TARGET_LONG,
          obj_min |-> OBJ_MIN_LONG, obj_max |-> OBJ_MAX_LONG]

\* A faulty pass rule that wants every answer of the window correct.
promotion_needs_all(recent_window, pass_rule) ==
    LET window == LastN(recent_window, pass_rule.window)
    IN  Len(window) >= pass_rule.window /\ CountTrue(window) >= pass_rule.window

\* A faulty pass rule that does not wait for the window to fill.
promotion_unwindowed(recent_window, pass_rule) ==
    CountTrue(LastN(recent_window, pass_rule.window)) >= pass_rule.need

\* The pass rule on the window already holding this answer (engine.py 222-224).
promotion_fires(recent_window, pass_rule) ==
    LET window == LastN(recent_window, pass_rule.window)
    IN  Len(window) >= pass_rule.window /\ CountTrue(window) >= pass_rule.need

\* A faulty demotion rule that waits neither for a full window nor for a
\* second answer at the level.
demotion_unguarded(recent_window, level_entry_seen) ==
    LET demo_window == LastN(recent_window, DEMOTE_RULE.window)
    IN  DEMOTE_RULE.window - CountTrue(demo_window) >= DEMOTE_RULE.need

\* A faulty demotion rule that wants every answer of the window missed.
demotion_needs_all_missed(recent_window, level_entry_seen) ==
    LET demo_window == LastN(recent_window, DEMOTE_RULE.window)
    IN  /\ Len(demo_window) >= DEMOTE_RULE.window
        /\ CountTrue(demo_window) = 0
        /\ level_entry_seen > 1

\* The demotion rule on the window already holding this answer (231-235).
demotion_fires(recent_window, level_entry_seen) ==
    LET demo_window == LastN(recent_window, DEMOTE_RULE.window)
        misses == DEMOTE_RULE.window - CountTrue(demo_window)
    IN  /\ Len(demo_window) >= DEMOTE_RULE.window
        /\ misses >= DEMOTE_RULE.need
        /\ level_entry_seen > 1

\* Rasch update and ladder progression for an objective answer.
\* target_level is <<>> (None) or <<level>>.
apply_objective_step(ds, level_bucket, correct, rt, target_level) ==
    LET prev_level == ds.level
        bucket == clamp_level(level_bucket)
        theta_after == map_update(ds.theta, bucket * Milli, correct, Milli,
                                  RASCH_PRIOR_VAR, RASCH_ETA)
        info_delta == item_info(theta_after, bucket * Milli, Milli)
        info_total == Max(ds.info_total + info_delta, EPS)
        obj_info_total == Max(ds.obj_info_total + info_delta, 0)
        obj_count == ds.obj_count + 1
        window_level == IF target_level = <<>> THEN prev_level ELSE target_level[1]
        same_level == window_level = prev_level
        appended == Append(ds.recent_window, correct)
        window1 == IF same_level
                   THEN (IF Len(appended) > RECENT_WINDOW_LIMIT
                         THEN Tail(appended) ELSE appended)
                   ELSE <<correct>>
        seen1 == IF same_level THEN ds.level_entry_seen + 1 ELSE 1
        pass_rule == run_parameters(rt).pass_rule
        promoted == same_level /\ promotion_fires(window1, pass_rule)
        demoted == same_level /\ ~promoted /\ demotion_fires(window1, seen1)
        new_level == IF promoted THEN clamp_level(prev_level + 1)
                     ELSE IF demoted THEN clamp_level(prev_level - 1)
                     ELSE prev_level
    IN  [ds EXCEPT
            !.theta = theta_after,
            !.info_total = info_total,
            !.obj_info_total = obj_info_total,
            !.se = se_from_info(info_total + ds.open_info_total),
            !.obj_count = obj_count,
            !.recent_window = IF promoted \/ demoted THEN <<>> ELSE window1,
            !.level_entry_seen = IF promoted \/ demoted THEN 0 ELSE seen1,
            !.b_stable = IF promoted THEN Max(ds.b_stable, prev_level)
                         ELSE ds.b_stable,
            !.level = new_level,
            !.b_peak = IF obj_count = 1 THEN new_level
                       ELSE Max(ds.b_peak, new_level)]

\* A faulty latency check that lets every answer through.
latency_never_ignored(latency_ms) == FALSE

\* The latency below which an OPEN answer is ignored (engine.py 279).
latency_ignored(latency_ms) == latency_ms < OPEN_LATENCY_P10_MS

\* Bounded residual update for an OPEN response.  rubric_conf is <<>> (None)
\* or <<confidence>>; a contribution's ignored field is None or "latency".
apply_open_step(ds, difficulty, score, word_count, latency_ms, rubric_conf) ==
    LET bucket == Max(Min(difficulty, 1), -1)
        theta_before == ds.theta
        mu == sigma(theta_before - bucket * Milli)
        ignored == latency_ignored(latency_ms)
        eta_halved == /\ ~ignored
                      /\ \/ word_count < OPEN_MIN_WORDS
                         \/ (rubric_conf # <<>> /\ rubric_conf[1] < OPEN_MIN_RUBRIC)
        eta == IF eta_halved THEN ETA_OPEN \div 2 ELSE ETA_OPEN
        info_mu == mu * (Milli - mu)
        denom == Max(info_mu, 1)
        dtheta0 == Max(Min(TDiv(eta * (score - mu) * Milli, denom),
                           DELTA_OPEN_MAX), -DELTA_OPEN_MAX)
        delta0 == ((((A_OPEN * A_OPEN) \div Milli) * info_mu) \div Milli) * 10
        open_total_candidate == ds.open_info_total + delta0
        cap == MulMilli(Max(ds.obj_info_total, EPS), OPEN_INFO_CAP_RATIO)
        over == open_total_candidate > cap /\ cap > 0
        scale == IF over THEN Min(Ratio(cap, open_total_candidate), Milli)
                 ELSE Milli
        scaled == ~ignored /\ over
        dtheta == IF over THEN TDiv(dtheta0 * scale, Milli) ELSE dtheta0
        open_info_delta == IF over THEN MulDiv(delta0, cap, open_total_candidate)
                           ELSE delta0
        open_info_total == Min(ds.open_info_total + open_info_delta, cap)
        entry == [b |-> bucket, r |-> score, mu |-> mu,
                  dtheta |-> IF ignored THEN 0 ELSE dtheta,
                  scaled |-> scaled,
                  ignored |-> IF ignored THEN "latency" ELSE None,
                  eta_halved |-> eta_halved]
    IN  IF ignored
        THEN [ds EXCEPT !.open_count = ds.open_count + 1,
                        !.open_contrib = Append(ds.open_contrib, entry)]
        ELSE [ds EXCEPT
                !.theta = theta_before + dtheta,
                !.open_info_total = open_info_total,
                !.se = se_from_info(ds.info_total + open_info_total),
                !.open_count = ds.open_count + 1,
                !.open_contrib = Append(ds.open_contrib, entry)]

\* ------------------------------------------------------ question_bank.py

\* How many of the eight domains the model runs with.
NumDomains == 2

DOMAINS ==
    SubSeq(<<"Analytical", "Mathematical", "Verbal", "Memory", "Spatial",
             "Creativity", "Strategy", "Social">>, 1, NumDomains)

DomainSet == {DOMAINS[i] : i \in 1..Len(DOMAINS)}

domain_index(d) == CHOOSE i \in 1..Len(DOMAINS) : DOMAINS[i] = d

Levels == LEVEL_MIN..LEVEL_MAX

\* An item of the bank: types.Item.  An id is <<domain, type, difficulty,
\* index>>; variant_group is <<>> when the item has none (None or "").
NoItem == <<>>

Item(domain, type, difficulty, idx, vg) ==
    [id |-> <<domain, type, difficulty, idx>>, domain |-> domain, type |-> type,
     difficulty |-> difficulty, variant_group |-> vg]

\* Objective items per difficulty level and domain in the small bank.
McqPerLevel == 1
\* Objective items per difficulty level and domain in the large bank.
McqPerLevelLarge == 4
\* Self-report items per domain in either bank.
SrPerDomain == 2

\* tests/conftest.py build_synthetic_bank: per domain, MCQ items on every
\* level, self-report items and one OPEN item per open level, each in a
\* variant group of its own.
build_synthetic_bank(mcq_per_level) ==
    UNION {
        {Item(d, "MCQ", lvl, idx, <<d, "obj", lvl, idx>>) :
            lvl \in Levels, idx \in 0..(mcq_per_level - 1)}
        \cup {Item(d, "SR", 0, idx, <<d, "sr", idx>>) : idx \in 0..(SrPerDomain - 1)}
        \cup {Item(d, "OPEN", OPEN_LEVELS[i], 0, <<d, "open", OPEN_LEVELS[i]>>) :
                i \in 1..Len(OPEN_LEVELS)}
        : d \in DomainSet }

\* The small bank: the synthetic bank where, as in tests/test_variant_group.py,
\* two objective items of the first domain share a variant group, an SJT item
\* of it is out of range (difficulty 3), and the first domain's level-0 item
\* and first self-report item carry no variant group.  load_bank builds an
\* Item from whatever bank.json holds (question_bank.py 7-10): the bank also
\* holds an item of a kind the engine does not know and one of no kind.
BankSmall ==
    LET base == build_synthetic_bank(McqPerLevel)
        first == DOMAINS[1]
        strip(it) == IF it.domain = first /\ it.difficulty = 0 /\ it.id[4] = 0
                        /\ it.type \in {"MCQ", "SR"}
                     THEN [it EXCEPT !.variant_group = <<>>] ELSE it
    IN  {strip(it) : it \in base}
        \cup {Item(first, "MCQ", 1, McqPerLevel, <<first, "obj", 1, 0>>),
              Item(first, "SJT", 3, 0, <<first, "obj", 3, 0>>),
              Item(first, "ESSAY", 0, 0, <<first, "essay", 0>>),
              Item(DOMAINS[NumDomains], "", 0, 0, <<>>)}

BankLarge == build_synthetic_bank(McqPerLevelLarge)

\* Objective items per difficulty level in the first domain of the deep bank,
\* and in its other domains.
McqPerLevelDeep == 10
McqPerLevelShallow == 2

\* The deep bank: the synthetic bank with enough objective items in the first
\* domain to bring its standard error down to the second OPEN gate.
BankDeep ==
    {it \in build_synthetic_bank(McqPerLevelDeep) :
        it.domain = DOMAINS[1] \/ it.type # "MCQ" \/ it.id[4] < McqPerLevelShallow}

\* ------------------------------------------------------------- the state

VARIABLES
    run_type,             \* AdaptiveSession.run_type: "short" or "long"
    cap,                  \* the step cap in force: CAP_SHORT / CAP_LONG or its
                          \* environment override (config.py 110-111)
    bank_id,              \* which bank load_bank() returned
    domains,              \* EngineState.domains: domain -> DomainState
    asked,                \* AdaptiveSession.asked: ids of answered items
    seen_variant_groups,  \* AdaptiveSession.seen_variant_groups
    current,              \* AdaptiveSession._current: an item or NoItem
    target_level,         \* the pending item's _target_level: <<>> or <<level>>
    step,                 \* AdaptiveSession._step
    last_domain_id,       \* AdaptiveSession.last_domain_id
    last_item_type,       \* AdaptiveSession._last_item_type
    last_pick_was_sr,     \* QuestionPolicy._last_pick_was_sr
    served,               \* history: the items next_item returned, in order
    reserves,             \* environment: calls of next_item the client may still
                          \* make while an item is pending
    respondent,           \* environment: the answering pattern of the respondent
    seeded,               \* environment: whether DEBUG_SEED fixes the policy's draws
    calls,                \* history: the direct calls of the update functions,
                          \* and the outcome of answer_current when it was the
                          \* last call made on the session
    audit_events,         \* EngineState.audit_events
    now,                  \* environment: the reading of the wall clock
    first_run,            \* history: <<>>, or what an earlier session built
                          \* with the same seed served and audited
    environ,              \* os.environ of the server process
    SESS                  \* api/app.py SESS: session id -> <<>> or <<session>>

vars == <<run_type, cap, bank_id, domains, asked, seen_variant_groups, current,
          target_level, step, last_domain_id, last_item_type, last_pick_was_sr,
          served, reserves, respondent, seeded, calls, audit_events, now,
          first_run, environ, SESS>>

\* What the server process holds besides one session's engine.
api_vars == <<environ, SESS>>

\* self.items of the session and of its policy.
Items ==
    IF bank_id = "small" THEN BankSmall
    ELSE IF bank_id = "deep" THEN BankDeep ELSE BankLarge

\* ------------------------------------------------------------- policy.py

\* Faulty bounds that give a short run the self-report quota of a long one.
bounds_with_long_quota(rt) ==
    IF rt = "short"
    THEN [se_target |-> SE_TARGET_SHORT, obj_min |-> OBJ_MIN_SHORT,
          obj_max |-> OBJ_MAX_SHORT, sr_required |-> SR_PER_DOMAIN_LONG]
    ELSE [se_target |-> SE_TARGET_LONG, obj_min |-> OBJ_MIN_LONG,
          obj_max |-> OBJ_MAX_LONG, sr_required |-> SR_PER_DOMAIN_LONG]

bounds(rt) ==
    IF rt = "short"
    THEN [se_target |-> SE_TARGET_SHORT, obj_min |-> OBJ_MIN_SHORT,
          obj_max |-> OBJ_MAX_SHORT, sr_required |-> SR_PER_DOMAIN_SHORT]
    ELSE [se_target |-> SE_TARGET_LONG, obj_min |-> OBJ_MIN_LONG,
          obj_max |-> OBJ_MAX_LONG, sr_required |-> SR_PER_DOMAIN_LONG]

\* A faulty cap that allows one answer more than the budget.
cap_for_one_more(rt) == cap + 1

\* CAP_SHORT or CAP_LONG as the process sees them.
cap_for(rt) == cap

\* Lexicographic order on key tuples of equal length.
RECURSIVE KeyLess(_, _)
KeyLess(a, b) ==
    /\ a # <<>>
    /\ \/ Head(a) < Head(b)
       \/ Head(a) = Head(b) /\ KeyLess(Tail(a), Tail(b))

\* sorted(S, key)[0] for a key that tells all members apart.
First(S, key(_)) == CHOOSE x \in S : \A y \in S \ {x} : KeyLess(key(x), key(y))

\* A faulty test that looks at the asked ids only.
is_unasked(item, st) == item.id \notin st.asked

is_unseen(item, st) ==
    /\ item.id \notin st.asked
    /\ ~(item.variant_group # <<>> /\ item.variant_group \in st.seen_variant_groups)

\* The kinds of item the policy indexes and the engine keeps response-time
\* sums for (types.ItemType; the keys of EngineState.rt_sums).
KnownKinds == {"SR", "MCQ", "SJT", "OPEN"}

\* _obj_index[domain][lvl], _sr_index[domain], _open_index[domain][lvl].
obj_pool(d, lvl) ==
    {it \in Items : it.domain = d /\ it.type \in {"MCQ", "SJT"}
                    /\ clamp_level(it.difficulty) = lvl}

sr_pool(d) == {it \in Items : it.domain = d /\ it.type = "SR"}

\* tuple(sorted(OPEN_LEVELS)); the configured levels are already in order.
open_levels == OPEN_LEVELS

open_pool(d, lvl) ==
    {it \in Items : it.domain = d /\ it.type = "OPEN"
                    /\ Max(open_levels[1], Min(open_levels[3], it.difficulty)) = lvl}

sr_available(d, st) == \E it \in sr_pool(d) : is_unseen(it, st)

\* The distinct levels base, base+1, base-1, base+2, base-2, each clamped.
level_order(base_level) ==
    LET raw == <<clamp_level(base_level), clamp_level(base_level + 1),
                 clamp_level(base_level - 1), clamp_level(base_level + 2),
                 clamp_level(base_level - 2)>>
        kept == SelectSeq([i \in 1..5 |-> <<raw[i], \A j \in 1..(i - 1) : raw[j] # raw[i]>>],
                          LAMBDA e : e[2])
    IN  [i \in 1..Len(kept) |-> kept[i][1]]

\* pool(lvl) of the first level of the order where it is not empty, else {}.
first_nonempty(order, pool(_)) ==
    LET idx == {i \in 1..Len(order) : pool(order[i]) # {}}
    IN  IF idx = {} THEN {}
        ELSE pool(order[CHOOSE i \in idx : \A j \in idx : i <= j])

\* rng.choice(options): any option, or with a fixed seed one draw, taken to be
\* the option of the lowest index.
rng_choice(options) ==
    IF seeded /\ options # {}
    THEN {CHOOSE it \in options : \A other \in options : it.id[4] <= other.id[4]}
    ELSE options

\* The items _objective_item may return for a domain: the unseen items of the
\* first level of the order that has any ({} when it returns None).
objective_item(d, st) ==
    LET options(lvl) == {it \in obj_pool(d, lvl) : is_unseen(it, st)}
    IN  rng_choice(first_nonempty(level_order(st.hist[d].level), options))

sort_key(d, st) ==
    <<-st.se[d], st.hist[d].obj_count,
      IF st.last_domain_id = d THEN 0 ELSE -1, domain_index(d)>>

\* _serve_objective over _sort_candidates(doms): the options of the first
\* domain, in sorted order, that has an item.
serve_objective(doms, st) ==
    LET having == {d \in doms : objective_item(d, st) # {}}
        key(d) == sort_key(d, st)
    IN  IF having = {} THEN {} ELSE objective_item(First(having, key), st)

\* _fallback_objective: the first domain, then the lowest level, with an item.
fallback_objective(st) ==
    LET options(d, lvl) == {it \in obj_pool(d, lvl) : is_unseen(it, st)}
        slots == {<<domain_index(d), lvl>> : d \in DomainSet, lvl \in Levels}
        full == {sl \in slots : options(DOMAINS[sl[1]], sl[2]) # {}}
        key(sl) == sl
    IN  IF full = {} THEN {}
        ELSE LET sl == First(full, key)
             IN  rng_choice(options(DOMAINS[sl[1]], sl[2]))

sr_domain(st, obj_min, sr_required) ==
    LET doms == {d \in DomainSet : /\ st.hist[d].obj_count >= obj_min
                                   /\ st.hist[d].sr_count < sr_required
                                   /\ sr_available(d, st)}
        key(d) == <<st.hist[d].sr_count,
                    IF st.last_domain_id = d THEN 0 ELSE -1, domain_index(d)>>
    IN  IF doms = {} THEN None ELSE First(doms, key)

pick_sr_item(d, st) == rng_choice({it \in sr_pool(d) : is_unseen(it, st)})

Abs(x) == IF x >= 0 THEN x ELSE -x

\* sorted(open_levels, key=(|lvl - preferred|, -lvl)).
open_level_order(preferred) ==
    LET key(lvl) == <<Abs(lvl - preferred), -lvl>>
        S == {open_levels[i] : i \in 1..Len(open_levels)}
        l1 == First(S, key)
        l2 == First(S \ {l1}, key)
        l3 == First(S \ {l1, l2}, key)
    IN  <<l1, l2, l3>>

\* min(open_levels, key=|theta - lvl|): the first of the nearest levels.
pick_open_level(theta_val) ==
    LET key(i) == <<Abs(theta_val - open_levels[i] * Milli), i>>
    IN  open_levels[First(1..Len(open_levels), key)]

\* The items _select_open_item may return ({} when it returns None).
select_open_item(d, preferred_level, st) ==
    LET options(lvl) == {it \in open_pool(d, lvl) : is_unseen(it, st)}
    IN  rng_choice(first_nonempty(open_level_order(preferred_level), options))

\* The target level of a domain's second OPEN item (policy.py 315-326).
second_open_target(hist) ==
    LET first == hist.open_contrib[1]
        b1 == first.b
        denom == Max(first.mu * (Milli - first.mu), 1)
        z1 == TDiv((first.r - first.mu) * Milli, Max(isqrt(denom), 1))
        recent == LastN(hist.recent_window, 4)
        last_two == IF Len(recent) >= 2 THEN LastN(recent, 2) ELSE <<>>
        has_miss == \E i \in 1..Len(LastN(hist.recent_window, 3)) :
                        ~LastN(hist.recent_window, 3)[i]
    IN  IF Len(last_two) = 2 /\ last_two[1] /\ last_two[2] /\ z1 >= OPEN_Z_SHIFT
        THEN Min(b1 + 1, open_levels[3])
        ELSE IF has_miss /\ z1 <= -OPEN_Z_SHIFT
        THEN Max(b1 - 1, open_levels[1])
        ELSE b1

\* A faulty gate that lets a second OPEN item through whatever the first
\* one earned.
open_gate_whatever_first_earned(d, st) ==
    LET hist == st.hist[d]
    IN  \/ /\ hist.open_count = 0
           /\ hist.obj_count >= OPEN_GATE1_MIN_OBJ
           /\ st.se[d] <= OPEN_GATE1_SE_MAX
        \/ /\ hist.open_count = 1
           /\ hist.obj_count >= OPEN_GATE1_MIN_OBJ
           /\ st.se[d] <= OPEN_GATE2_SE_MAX
           /\ hist.open_contrib # <<>>

\* Whether a domain passes the gate of its next OPEN item (policy.py 288-328).
open_gate(d, st) ==
    LET hist == st.hist[d]
    IN  \/ /\ hist.open_count = 0
           /\ hist.obj_count >= OPEN_GATE1_MIN_OBJ
           /\ st.se[d] <= OPEN_GATE1_SE_MAX
        \/ /\ hist.open_count = 1
           /\ hist.obj_count >= OPEN_GATE1_MIN_OBJ
           /\ st.se[d] <= OPEN_GATE2_SE_MAX
           /\ hist.open_contrib # <<>>
           /\ hist.open_contrib[1].ignored = None
           /\ hist.open_contrib[1].r >= OPEN_GATE2_MIN_R1

open_target(d, st) ==
    IF st.hist[d].open_count = 0 THEN pick_open_level(st.theta[d])
    ELSE second_open_target(st.hist[d])

\* _open_candidates: the domains with an OPEN item to offer.
open_candidates(st, obj_min) ==
    IF st.run_type # "long" \/ ~OPEN_ENABLED_LONG THEN {}
    ELSE IF \E d \in DomainSet : st.hist[d].obj_count < obj_min THEN {}
    ELSE IF st.last_item_type \notin {"MCQ", "SJT"} THEN {}
    ELSE {d \in DomainSet : /\ open_gate(d, st)
                            /\ select_open_item(d, open_target(d, st), st) # {}}

open_candidate_exists(st, obj_min) == open_candidates(st, obj_min) # {}

\* A faulty test that never holds OPEN items back for self-report answers.
sr_owed_never(sr_needed) == FALSE

\* Whether self-report answers are still owed (policy.py 358-359).
sr_owed(sr_needed) == sr_needed > 0

\* The items _maybe_serve_open may return ({} when it returns None).
maybe_serve_open(st, obj_min, sr_needed) ==
    LET candidates == open_candidates(st, obj_min)
        key(d) == <<-st.se[d], st.hist[d].open_count,
                    IF st.last_domain_id = d THEN 0 ELSE -1, domain_index(d)>>
    IN  IF sr_owed(sr_needed) \/ candidates = {} THEN {}
        ELSE LET d == First(candidates, key)
             IN  select_open_item(d, open_target(d, st), st)

RECURSIVE SumOver(_, _)
SumOver(S, f) ==
    IF S = {} THEN 0
    ELSE LET x == CHOOSE y \in S : TRUE IN f[x] + SumOver(S \ {x}, f)

remaining_obj_minima(st, obj_min) ==
    SumOver(DomainSet, [d \in DomainSet |-> Max(0, obj_min - st.hist[d].obj_count)])

sr_needed_of(st, sr_required) ==
    IF sr_required > 0
    THEN SumOver(DomainSet, [d \in DomainSet |-> Max(0, sr_required - st.hist[d].sr_count)])
    ELSE 0

\* A faulty should_stop that lets the step at the cap through.
should_stop_past_cap(st) == st.step > cap_for(st.run_type)

\* A faulty should_stop with the test of the minima inverted.
should_stop_below_minima(st) ==
    \/ st.step >= cap_for(st.run_type)
    \/ remaining_obj_minima(st, bounds(st.run_type).obj_min) > 0

\* QuestionPolicy.should_stop.  Its last two statements both return False
\* (policy.py 153-157).
should_stop(st) ==
    LET b == bounds(st.run_type)
        sr_needed == sr_needed_of(st, b.sr_required)
    IN  IF st.step >= cap_for(st.run_type) THEN TRUE
        ELSE IF remaining_obj_minima(st, b.obj_min) > 0 THEN FALSE
        ELSE IF \E d \in DomainSet : ~st.hist[d].obj_done
                                     /\ st.hist[d].obj_count < b.obj_max THEN FALSE
        ELSE IF sr_needed > 0
        THEN ~(\E d \in DomainSet : st.hist[d].sr_count < b.sr_required
                                    /\ sr_available(d, st))
        ELSE IF st.run_type = "long" /\ OPEN_ENABLED_LONG
                /\ open_candidate_exists(st, b.obj_min) THEN FALSE
        ELSE FALSE

\* A faulty list of the domains below the minimum: always empty.
nobody_below(st, obj_min) == {}

\* The domains next_item lists as below the objective minimum (166-168).
below_minimum(st, obj_min) == {d \in DomainSet : st.hist[d].obj_count < obj_min}

\* A faulty turn-taking that lets a self-report item follow another at once.
sr_turn_always(sr_only, lps, stage_b, stage_c) == TRUE

\* Whether next_item may serve a self-report item now: when the budget left
\* is owed to self-report, when the last pick was none, or when no domain is
\* left in stage B or C (policy.py 200-202).
sr_turn(sr_only, lps, stage_b, stage_c) ==
    sr_only \/ ~lps \/ (stage_b = {} /\ stage_c = {})

\* A faulty test that gives the budget over to self-report one step late.
sr_budget_only_late(sr_needed, steps_left) ==
    sr_needed > 0 /\ steps_left < sr_needed

\* Whether the steps left are all owed to self-report answers (policy.py 196).
sr_budget_only(sr_needed, steps_left) ==
    sr_needed > 0 /\ steps_left <= sr_needed

\* A result of QuestionPolicy.next_item: the item (NoItem for None), the
\* _target_level it leaves on the item and the new _last_pick_was_sr.
Pick(it, tl, lps) == [item |-> it, target_level |-> tl, last_pick_was_sr |-> lps]

ObjPicks(S, d_level, lps) ==
    {Pick(it, <<d_level[it.domain]>>, lps) : it \in S}

\* QuestionPolicy.next_item: every result the random choices allow.
policy_next_item(st, lps) ==
    LET b == bounds(st.run_type)
        steps_left == Max(cap_for(st.run_type) - st.step, 0)
        level_of == [d \in DomainSet |-> st.hist[d].level]
        below == below_minimum(st, b.obj_min)
        stage_b == {d \in DomainSet : ~st.hist[d].obj_done /\ st.se[d] > b.se_target}
        stage_c == {d \in DomainSet : ~st.hist[d].obj_done
                                      /\ st.hist[d].obj_count < b.obj_max}
        sr_needed == sr_needed_of(st, b.sr_required)
        sr_only == sr_budget_only(sr_needed, steps_left)
        sr_dom == sr_domain(st, b.obj_min, b.sr_required)
        serve_sr == /\ sr_needed > 0
                    /\ sr_dom # None
                    /\ sr_turn(sr_only, lps, stage_b, stage_c)
        open_items == maybe_serve_open(st, b.obj_min, sr_needed)
        from_b == IF stage_b = {} THEN {} ELSE serve_objective(stage_b, st)
        from_c == IF stage_c = {} THEN {} ELSE serve_objective(stage_c, st)
        last == fallback_objective(st)
    IN  IF steps_left <= 0 THEN {Pick(NoItem, <<>>, lps)}
        ELSE IF below # {}
        THEN (IF serve_objective(below, st) = {} THEN {Pick(NoItem, <<>>, lps)}
              ELSE ObjPicks(serve_objective(below, st), level_of, FALSE))
        ELSE IF sr_needed > 0 /\ sr_dom = None /\ sr_only
        THEN {Pick(NoItem, <<>>, lps)}
        ELSE IF serve_sr
        THEN {Pick(it, <<>>, TRUE) : it \in pick_sr_item(sr_dom, st)}
        ELSE IF open_items # {} THEN {Pick(it, <<>>, FALSE) : it \in open_items}
        ELSE IF from_b # {} THEN ObjPicks(from_b, level_of, FALSE)
        ELSE IF from_c # {} THEN ObjPicks(from_c, level_of, FALSE)
        ELSE IF last # {} THEN ObjPicks(last, level_of, FALSE)
        ELSE {Pick(NoItem, <<>>, FALSE)}

\* ------------------------------------------- engine.py: AdaptiveSession

\* Python round() of a value in thousandths: to the nearest integer, a tie to
\* the even one.
PyRound(x) ==
    LET q == x \div Milli
        r == x % Milli
    IN  IF r < 500 THEN q
        ELSE IF r > 500 THEN q + 1
        ELSE IF q % 2 = 0 THEN q ELSE q + 1

\* mean is <<>> (None) or <<a self-report mean in thousandths>>.
sr_shift_from_mean(mean) ==
    IF mean = <<>> THEN 0
    ELSE IF mean[1] <= 2500 THEN SR_START_SHIFT.low
    ELSE IF mean[1] >= 4500 THEN SR_START_SHIFT.high
    ELSE SR_START_SHIFT.mid

\* _init_domain_levels on a fresh DomainState (sr_total = 0): sr_mean and
\* prior_val are the domain's entries of the configuration, <<>> when absent.
init_domain_levels(ds, sr_mean, prior_val) ==
    LET base_level == Max(-1, Min(1, 0 + sr_shift_from_mean(sr_mean)))
        start_level == clamp_level(IF prior_val # <<>> THEN PyRound(prior_val[1])
                                   ELSE base_level)
    IN  [ds EXCEPT !.level = start_level,
                   !.recent_window = <<>>,
                   !.level_entry_seen = 0,
                   !.b_peak = start_level,
                   !.b_stable = IF prior_val # <<>>
                                THEN Max(ds.b_stable, start_level)
                                ELSE ds.b_stable]

policy_state ==
    [run_type |-> run_type,
     theta |-> [d \in DomainSet |-> domains[d].theta],
     se |-> [d \in DomainSet |-> domains[d].se],
     asked |-> asked,
     seen_variant_groups |-> seen_variant_groups,
     step |-> step,
     hist |-> [d \in DomainSet |->
                 [sr_count |-> domains[d].sr_count,
                  obj_count |-> domains[d].obj_count,
                  open_count |-> domains[d].open_count,
                  level |-> domains[d].level,
                  recent_window |-> domains[d].recent_window,
                  level_entry_seen |-> domains[d].level_entry_seen,
                  obj_done |-> domains[d].obj_done,
                  open_contrib |-> domains[d].open_contrib,
                  obj_info_total |-> domains[d].obj_info_total,
                  open_info_total |-> domains[d].open_info_total]],
     last_domain_id |-> last_domain_id,
     last_item_type |-> last_item_type]

update_obj_done(ds, rt) ==
    LET rp == run_parameters(rt)
    IN  [ds EXCEPT !.obj_done = \/ (ds.obj_count >= rp.obj_min /\ ds.se <= rp.se_target)
                                \/ ds.obj_count >= rp.obj_max]

\* The step cap both run types get from the environment when it overrides
\* CAP_SHORT and CAP_LONG.
CapOverride == 9
\* Calls of next_item a client makes while an item is still pending.
MaxReserve == 2

\* The configurations sessions start from: the per-domain sr_means and
\* theta_priors of config.json, in thousandths, <<>> where a domain has none.
StartConfigs ==
    LET first == DOMAINS[1]
        nothing == [d \in DomainSet |-> <<>>]
    IN  { [sr_means |-> nothing, theta_priors |-> nothing],
          [sr_means |-> [d \in DomainSet |-> IF d = first THEN <<2000>> ELSE <<5000>>],
           theta_priors |-> nothing],
          [sr_means |-> nothing,
           theta_priors |-> [d \in DomainSet |-> IF d = first THEN <<2500>> ELSE <<-7000>>]],
          [sr_means |-> [d \in DomainSet |-> <<3000>>],
           theta_priors |-> [d \in DomainSet |-> IF d = first THEN <<>> ELSE <<1500>>]] }

\* The deployments explored.  Under the overridden cap a respondent answers
\* the small bank freely.  A respondent following one answering pattern takes
\* the small bank with a client that asks again for items while one is
\* pending, and the large bank, its draws seeded, under the default caps.
NoConfig == [sr_means |-> [d \in DomainSet |-> <<>>],
             theta_priors |-> [d \in DomainSet |-> <<>>]]

Patterns == {"strong", "weak", "alternating"}

Scenarios ==
    {[bank |-> "small", capped |-> <<CapOverride>>, respondent |-> "any", retries |-> 0,
      seeded |-> FALSE, cfg |-> c] : c \in StartConfigs}
    \cup {[bank |-> "small", capped |-> <<>>, respondent |-> r,
           retries |-> MaxReserve, seeded |-> FALSE, cfg |-> NoConfig] :
            r \in Patterns}
    \cup {[bank |-> "large", capped |-> <<>>, respondent |-> r, retries |-> 0,
           seeded |-> TRUE, cfg |-> NoConfig] : r \in Patterns}

\* No direct call made yet.  A record of the calls counts them, counts the
\* objective answers since the ladder last moved (a level change, or a window
\* emptied where the clamp absorbed the change), and keeps the last call and
\* what next_item returned when last called: "" before its first call, "none"
\* for None, the kind of the item otherwise; promoted is the highest level at
\* which a direct objective call promoted so far (<<>> before the first);
\* in_flight holds, for each call of answer_current that has read the
\* pending item and not yet returned, the item it read and its target level.
NoCalls == [total |-> 0, open |-> 0, off_level |-> 0, since_change |-> 0,
            last |-> <<>>, returned |-> "", promoted |-> <<>>,
            in_flight |-> <<>>]

\* The record of the calls after next_item has returned an item or None.
returned(it) ==
    [NoCalls EXCEPT !.returned = IF it = NoItem THEN "none" ELSE it.type,
                    !.in_flight = calls.in_flight]

\* Sessions the server can hold at a time.
NumSessions == 2
SessionIds == 1..NumSessions

\* The graders a start request can ask for (StartReq.llm).
Backends == {"none", "azure", "ollama"}

\* The environment of a server started without LLM_BACKEND, and no session.
NoEnviron == [LLM_BACKEND |-> "none", USE_LLM_OPEN |-> FALSE]
NoSessions == [s \in SessionIds |-> <<>>]

\* AdaptiveSession.__init__.
InitSession(rt, sc) ==
    /\ run_type = rt
    /\ cap = IF sc.capped # <<>> THEN sc.capped[1]
             ELSE IF rt = "short" THEN CAP_SHORT ELSE CAP_LONG
    /\ bank_id = sc.bank
    /\ respondent = sc.respondent
    /\ seeded = sc.seeded
    /\ domains = [d \in DomainSet |->
                    init_domain_levels(DomainState, sc.cfg.sr_means[d],
                                       sc.cfg.theta_priors[d])]
    /\ asked = {}
    /\ seen_variant_groups = {}
    /\ current = NoItem
    /\ target_level = <<>>
    /\ step = 0
    /\ last_domain_id = None
    /\ last_item_type = None
    /\ last_pick_was_sr = FALSE
    /\ served = <<>>
    /\ reserves = sc.retries
    /\ calls = NoCalls
    /\ audit_events = <<>>
    /\ now = 0
    /\ first_run = <<>>
    /\ environ = NoEnviron
    /\ SESS = NoSessions

Init == \E rt \in {"short", "long"}, sc \in Scenarios : InitSession(rt, sc)

\* AdaptiveSession.next_item.  A client may call it again before answering
\* the pending item (api/app.py test_next).
NextItem ==
    /\ current = NoItem \/ reserves > 0
    /\ IF should_stop(policy_state)
       THEN /\ calls' = returned(NoItem)
            /\ UNCHANGED <<run_type, cap, bank_id, respondent, seeded, domains,
                           asked, seen_variant_groups, current, target_level, step,
                           last_domain_id, last_item_type, last_pick_was_sr,
                           served, reserves, audit_events, now, first_run,
                           api_vars>>
       ELSE \E pick \in policy_next_item(policy_state, last_pick_was_sr) :
              /\ calls' = returned(pick.item)
              /\ current' = pick.item
              /\ target_level' = pick.target_level
              /\ last_pick_was_sr' = pick.last_pick_was_sr
              /\ seen_variant_groups' =
                    IF pick.item # NoItem /\ pick.item.variant_group # <<>>
                    THEN seen_variant_groups \cup {pick.item.variant_group}
                    ELSE seen_variant_groups
              /\ served' = IF pick.item # NoItem THEN Append(served, pick.item)
                           ELSE served
              /\ reserves' = IF current # NoItem THEN reserves - 1 ELSE reserves
              /\ UNCHANGED <<run_type, cap, bank_id, respondent, seeded, domains, asked,
                             step, last_domain_id, last_item_type, audit_events,
                             now, first_run, api_vars>>

\* The credits score_item can give the pending item under the respondent's
\* pattern: 0 or 1 for MCQ and SJT, the chosen option over 4 for SR.
Credits(it, ds) ==
    IF it.type \in {"MCQ", "SJT"}
    THEN (CASE respondent = "strong" -> {Milli}
            [] respondent = "weak" -> {0}
            [] respondent = "alternating" ->
                    {IF ds.obj_count % 2 = 0 THEN Milli ELSE 0}
            [] OTHER -> {0, Milli})
    ELSE IF it.type = "SR"
    THEN (IF respondent \in {"any", "careless"} THEN {0, Milli}
          ELSE {(3 * Milli) \div 4})
    ELSE {0, 700}

\* The texts and latencies of OPEN answers: <<word count, milliseconds>>.
OpenAnswers == {<<100, 5000>>, <<40, 5000>>, <<100, 1000>>}

\* A faulty self-report branch that also lets the answer move the ability.
answer_self_report_weighted(ds, credit) ==
    [ds EXCEPT !.sr_total = @ + 1, !.sr_sum = @ + credit, !.sr_count = @ + 1,
               !.theta = @ + (credit - Milli \div 2)]

\* The SR branch of answer_current (engine.py 764-768).  The reliability
\* flags it also updates are read by no decision and no score.
answer_self_report(ds, credit) ==
    [ds EXCEPT !.sr_total = @ + 1, !.sr_sum = @ + credit, !.sr_count = @ + 1]

\* The domain's state after answer_current has scored the pending item.
answered(ds, it, tl, credit, words, latency_ms) ==
    LET level_bucket == Max(Min(it.difficulty, 2), -2)
        correct_bool == IF it.type = "MCQ" THEN credit >= 999 ELSE credit >= 500
        after_obj == update_obj_done(
                        apply_objective_step(ds, level_bucket, correct_bool,
                                             run_type, tl), run_type)
    IN  CASE it.type = "MCQ" ->
                [after_obj EXCEPT !.mcq_total = @ + 1,
                                  !.mcq_correct = @ + (IF credit >= 999 THEN 1 ELSE 0)]
          [] it.type = "SJT" ->
                [after_obj EXCEPT !.sjt_total = @ + 1, !.sjt_sum = @ + credit]
          [] it.type = "OPEN" ->
                update_obj_done(
                    apply_open_step([ds EXCEPT !.open_total = @ + 1,
                                               !.open_sum = @ + credit],
                                    level_bucket, credit, words, latency_ms, <<>>),
                    run_type)
          [] it.type = "SR" -> answer_self_report(ds, credit)
          [] OTHER -> ds

\* What Answer.value can be: the index of an option (the text, for an OPEN
\* item), an integer that is no option's index, a text that is no number,
\* the empty text.  Only the careless client sends the last three.
AnswerValues ==
    IF respondent = "careless" THEN {"index", "out_of_range", "text", "empty"}
    ELSE {"index"}

\* score_item converts the value of an MCQ, SJT or SR answer with int(),
\* which raises ValueError on a text that is no number (scoring.py 103-108).
score_item_raises(it, value) ==
    it.type \in {"MCQ", "SJT", "SR"} /\ value \in {"text", "empty"}

\* The credits score_item can return for a value it accepts.  An index out
\* of range matches no key of an MCQ or SJT item and is clamped to 0..4 on
\* an SR item; whatever an OPEN item gets that is not a text of six words
\* scores zero.
score_item(it, value, ds) ==
    IF it.type \notin KnownKinds THEN {0}
    ELSE IF value = "index" \/ (it.type = "OPEN" /\ value = "text")
    THEN Credits(it, ds)
    ELSE IF it.type = "SR" THEN {0, Milli} ELSE {0}

\* The "type" tag of the meta score_item returns with the credit: the item's
\* kind in upper case, as the bank spells it here, or "UNKNOWN" for an item
\* of no kind (scoring.py 101, 111).
score_item_tag(it) == IF it.type = "" THEN "UNKNOWN" ELSE it.type

\* What Answer.rt_sec can be: None, or a response time in milliseconds.
ResponseTimes == {<<>>, <<2000>>} \cup {<<oa[2]>> : oa \in OpenAnswers}

\* A faulty default that takes an answer without a response time for one
\* given just in time.
open_latency_ms_in_time(rt_sec) ==
    IF rt_sec = <<>> THEN OPEN_LATENCY_P10_MS ELSE rt_sec[1]

\* The latency answer_current passes to _apply_open_step: the response time
\* in milliseconds, 0.0 when the answer has none (engine.py 700).
open_latency_ms(rt_sec) == IF rt_sec = <<>> THEN 0 ELSE rt_sec[1]

\* answer_current adds a response time to rt_sums[it.type], which has a key
\* for each known kind only: a KeyError for any other (engine.py 607-610).
rt_sums_raises(it, rt_sec) == rt_sec # <<>> /\ it.type \notin KnownKinds

\* The outcome of answer_current when it was the last call made: whether an
\* item was pending and whether the call raised.
outcome(pending, raised) ==
    [NoCalls EXCEPT !.last = <<[kind |-> "answer_current", pending |-> pending,
                                raised |-> raised]>>,
                    !.returned = calls.returned]

\* A faulty audit event that names the item after the pending one.
event_record_off_by_one(it, before, after, credit, latency_ms) ==
    [t |-> now, domain |-> it.domain,
     item_id |-> <<it.id[1], it.id[2], it.id[3], it.id[4] + 1>>, type |-> it.type,
     b |-> Max(Min(it.difficulty, 2), -2),
     level_before |-> before.level, level_after |-> after.level,
     correct_or_r |-> credit,
     theta_before |-> before.theta, theta_after |-> after.theta,
     se_after |-> after.se, latency_ms |-> latency_ms]

\* The audit event answer_current appends: stamped with the clock's reading
\* at the call (engine.py 621-623, 673-686).
event_record(it, before, after, credit, latency_ms) ==
    [t |-> now, domain |-> it.domain, item_id |-> it.id, type |-> it.type,
     b |-> IF it.type = "OPEN" THEN Max(Min(it.difficulty, 1), -1)
           ELSE Max(Min(it.difficulty, 2), -2),
     level_before |-> before.level, level_after |-> after.level,
     correct_or_r |-> IF it.type = "MCQ" THEN (IF credit >= 999 THEN Milli ELSE 0)
                      ELSE IF it.type = "SJT"
                      THEN (IF credit >= 500 THEN Milli ELSE 0)
                      ELSE credit,
     theta_before |-> before.theta, theta_after |-> after.theta,
     se_after |-> after.se, latency_ms |-> latency_ms]

\* A faulty early return placed after the step count's increment.
step_without_pending_counted(n) == n + 1

\* The step count after answer_current found no item pending: it returns
\* before anything is written (engine.py 602).
step_without_pending(n) == n

\* The body of answer_current for the item it read as pending (engine.py
\* 603-837), tl the target level the policy served it for and rest the
\* calls of answer_current still under way: an exception of score_item, or
\* of the response-time sums, leaves the call before any update.
Credit(it, tl, rest) ==
    \E value \in AnswerValues, rt_sec \in ResponseTimes :
      IF score_item_raises(it, value) \/ rt_sums_raises(it, rt_sec)
      THEN /\ calls' = [outcome(TRUE, TRUE) EXCEPT !.in_flight = rest]
           /\ UNCHANGED <<run_type, cap, bank_id, respondent, seeded, domains,
                          asked, seen_variant_groups, current, target_level,
                          step, last_domain_id, last_item_type,
                          last_pick_was_sr, served, reserves, audit_events,
                          now, first_run, api_vars>>
      ELSE \E credit \in score_item(it, value, domains[it.domain]),
              oa \in IF it.type = "OPEN"
                     THEN {<<o[1], open_latency_ms(rt_sec)>> :
                             o \in {a \in OpenAnswers :
                                      rt_sec = <<>> \/ a[2] = rt_sec[1]}}
                     ELSE {<<0, 0>>} :
             LET words == IF value \in {"index", "text"} THEN oa[1] ELSE 0
                 scored == IF it.type = "OPEN" /\ words < 6
                           THEN 0 ELSE credit
                 before == domains[it.domain]
                 after == answered(before, it,
                                   IF tl = <<>>
                                   THEN <<before.level>> ELSE tl,
                                   scored, words, oa[2])
             IN  /\ domains' = [domains EXCEPT ![it.domain] = after]
                 /\ audit_events' =
                       Append(audit_events,
                              event_record(it, before,
                                           domains'[it.domain],
                                           scored,
                                           IF it.type = "OPEN" /\ rt_sec # <<>>
                                           THEN rt_sec[1] ELSE 0))
                 /\ asked' = asked \cup {it.id}
                 /\ seen_variant_groups' =
                       IF it.variant_group # <<>>
                       THEN seen_variant_groups \cup {it.variant_group}
                       ELSE seen_variant_groups
                 /\ step' = step + 1
                 /\ last_domain_id' = it.domain
                 /\ last_item_type' = it.type
                 /\ current' = NoItem
                 /\ target_level' = <<>>
                 /\ calls' = [outcome(TRUE, FALSE) EXCEPT !.in_flight = rest]
                 /\ UNCHANGED <<run_type, cap, bank_id, respondent, seeded,
                                last_pick_was_sr, served, reserves, now,
                                first_run, api_vars>>

\* AdaptiveSession.answer_current: without a pending item it returns at
\* once; an exception of score_item, or of the response-time sums, leaves
\* the call before any update.  Only the careless client calls it while no
\* item is pending.
AnswerCurrent ==
    /\ ~(current = NoItem /\ respondent # "careless")
    /\ IF current = NoItem
       THEN /\ calls' = outcome(FALSE, FALSE)
            /\ step' = step_without_pending(step)
            /\ UNCHANGED <<run_type, cap, bank_id, respondent, seeded, domains,
                           asked, seen_variant_groups, current, target_level,
                           last_domain_id, last_item_type,
                           last_pick_was_sr, served, reserves, audit_events, now,
                           first_run, api_vars>>
       ELSE Credit(current, target_level, <<>>)

Next == NextItem \/ AnswerCurrent

Spec == Init /\ [][Next]_vars

\* ------------------- engine.py: a session whose client is careless

\* A short run on the small bank under the overridden cap; the client sends
\* whatever value it likes and answers whether or not an item is pending.
CarelessScenario ==
    [bank |-> "small", capped |-> <<CapOverride>>, respondent |-> "careless", retries |-> 0,
     seeded |-> FALSE, cfg |-> NoConfig]

InitCareless == InitSession("short", CarelessScenario)

SpecCareless == InitCareless /\ [][Next]_vars

\* ------------------- engine.py: a short session one step short

\* The cap of a short run that, with the small bank's domains at their
\* minimum of objective answers, leaves a step for each self-report answer
\* owed and none over.
CapTight == NumDomains * OBJ_MIN_SHORT + NumDomains * SR_PER_DOMAIN_SHORT

\* Short runs on the small bank under that cap and under a cap one step
\* wider, the respondent following one answering pattern.
TightScenarios ==
    {[bank |-> "small", capped |-> <<c>>, respondent |-> r, retries |-> 0,
      seeded |-> FALSE, cfg |-> NoConfig] :
        c \in {CapTight, CapTight + 1}, r \in Patterns}

InitTight == \E sc \in TightScenarios : InitSession("short", sc)

SpecTight == InitTight /\ [][Next]_vars

\* ------------------- engine.py: sessions around the self-report budget

\* The cap of a long run that leaves, after every domain's minimum of
\* objective answers, a step for each self-report answer owed and none over.
CapTightLong == NumDomains * OBJ_MIN_LONG + NumDomains * SR_PER_DOMAIN_LONG

\* Short runs on the small bank and seeded long runs on the large bank, under
\* the cap that just holds the minima and the self-report quota, one step
\* less and one step more.
InitQuota ==
    \/ \E c \in {CapTight - 1, CapTight, CapTight + 1}, r \in Patterns :
          InitSession("short", [bank |-> "small", capped |-> <<c>>,
                                respondent |-> r, retries |-> 0,
                                seeded |-> FALSE, cfg |-> NoConfig])
    \/ \E c \in {CapTightLong - 1, CapTightLong, CapTightLong + 1}, r \in Patterns :
          InitSession("long", [bank |-> "large", capped |-> <<c>>,
                               respondent |-> r, retries |-> 0,
                               seeded |-> TRUE, cfg |-> NoConfig])

SpecQuota == InitQuota /\ [][Next]_vars

\* ------------------- engine.py: a session handed its pending item

\* The caller makes an item of the bank that the policy has not indexed the
\* pending one (session._current = item), as a policy that files every kind
\* would.
SetPending ==
    /\ current = NoItem
    /\ step < cap
    /\ \E it \in Items :
          /\ it.type \notin KnownKinds
          /\ it.id \notin asked
          /\ current' = it
    /\ target_level' = <<>>
    /\ calls' = [NoCalls EXCEPT !.returned = calls.returned]
    /\ UNCHANGED <<run_type, cap, bank_id, respondent, seeded, domains, asked,
                   seen_variant_groups, step, last_domain_id, last_item_type,
                   last_pick_was_sr, served, reserves, audit_events, now,
                   first_run, api_vars>>

NextHanded == NextItem \/ AnswerCurrent \/ SetPending

SpecHanded == InitTight /\ [][NextHanded]_vars

\* ------------------- engine.py: a long session on the deep bank

\* A long run on the deep bank, its draws seeded, the respondent alternating
\* between right and wrong answers.
DeepScenario ==
    [bank |-> "deep", capped |-> <<>>, respondent |-> "alternating", retries |-> 0,
     seeded |-> TRUE, cfg |-> NoConfig]

InitDeep == InitSession("long", DeepScenario)

SpecDeep == InitDeep /\ [][Next]_vars

\* ------------------- engine.py: a long session whose client asks again

\* Calls of next_item the client of a long run on the large bank makes while
\* an item is still pending.
MaxReserveLong == 1

\* A long run on the large bank, its draws seeded, the respondent
\* alternating between right and wrong answers; the client may ask for the
\* next item while one is pending, which leaves the pending item's variant
\* group marked as seen (engine.py 593-598).
AskAgainScenario ==
    [bank |-> "large", capped |-> <<>>, respondent |-> "alternating",
     retries |-> MaxReserveLong, seeded |-> TRUE, cfg |-> NoConfig]

InitAskAgain == InitSession("long", AskAgainScenario)

SpecAskAgain == InitAskAgain /\ [][Next]_vars

\* ------------------- engine.py: a session that is driven to its end

\* Runs on the large bank whose respondent answers every item correctly.
InitAllCorrect ==
    \E rt \in {"short", "long"},
       sc \in {c \in Scenarios : c.bank = "large" /\ c.respondent = "strong"} :
        InitSession(rt, sc)

\* No item is pending and next_item has none to return.
SessionOver ==
    /\ current = NoItem
    /\ \/ should_stop(policy_state)
       \/ \A pick \in policy_next_item(policy_state, last_pick_was_sr) :
             pick.item = NoItem

SpecAllCorrect == InitAllCorrect /\ [][Next]_vars

\* ------------------- engine.py: a second session built with the same seed

\* The readings the wall clock goes through.
MaxClock == 2
\* The answers given to a session that is replayed.
MaxReplaySteps == 3

\* Sessions on the small bank whose draws the seed fixes (SEED and DEBUG_SEED
\* set), one per answering pattern.
ReplayScenarios ==
    {[bank |-> "small", capped |-> <<>>, respondent |-> r, retries |-> 0,
      seeded |-> TRUE, cfg |-> NoConfig] : r \in Patterns}

InitReplay ==
    \E rt \in {"short", "long"}, sc \in ReplayScenarios : InitSession(rt, sc)

\* Time passes between any two calls.
Tick ==
    /\ now < MaxClock
    /\ now' = now + 1
    /\ UNCHANGED <<run_type, cap, bank_id, domains, asked, seen_variant_groups,
                   current, target_level, step, last_domain_id, last_item_type,
                   last_pick_was_sr, served, reserves, respondent, seeded, calls,
                   audit_events, first_run, api_vars>>

\* next_item on a session that is replayed, up to the answers to give.
ReplayNextItem == step < MaxReplaySteps /\ NextItem

\* AdaptiveSession.__init__ once more with the same configuration and seed,
\* what the first session served and audited being kept for comparison.
StartAgain ==
    /\ first_run = <<>>
    /\ current = NoItem
    /\ step >= 1
    /\ first_run' = <<[served |-> served, audit_events |-> audit_events]>>
    /\ domains' = [d \in DomainSet |->
                     init_domain_levels(DomainState, NoConfig.sr_means[d],
                                        NoConfig.theta_priors[d])]
    /\ asked' = {}
    /\ seen_variant_groups' = {}
    /\ current' = NoItem
    /\ target_level' = <<>>
    /\ step' = 0
    /\ last_domain_id' = None
    /\ last_item_type' = None
    /\ last_pick_was_sr' = FALSE
    /\ served' = <<>>
    /\ reserves' = 0
    /\ calls' = NoCalls
    /\ audit_events' = <<>>
    /\ UNCHANGED <<run_type, cap, bank_id, respondent, seeded, now, api_vars>>

NextReplay == ReplayNextItem \/ AnswerCurrent \/ Tick \/ StartAgain

SpecReplay == InitReplay /\ [][NextReplay]_vars

\* ------------------------------------------------- engine.py: finalize

\* The calibration used when calibration_v2.json is absent: scores in points.
CALIB_FLOOR == 10
CALIB_CEIL == 100
CALIB_MIN_SPAN == 40
\* The score above which a domain without OPEN answers is capped.
A_CAP == 80

\* _theta_to_norm_score with no per-domain calibration, in thousandths of a
\* point.
theta_to_norm_score(theta) ==
    LET base_prob == sigma(theta)
        worst == CALIB_FLOOR
        best0 == CALIB_CEIL
        best == IF best0 <= worst THEN worst + CALIB_MIN_SPAN ELSE best0
        span == Min(Max(best - worst, CALIB_MIN_SPAN),
                    Max(CALIB_CEIL - CALIB_FLOOR, CALIB_MIN_SPAN))
        score == worst * Milli + base_prob * span
    IN  Max(CALIB_FLOOR * Milli, Min(CALIB_CEIL * Milli, score))

\* _composite: the score, the standard error and the parts in thousandths.
composite(ds) ==
    LET frac(num, den) == IF den > 0 THEN num \div den ELSE 0
    IN  [score |-> theta_to_norm_score(ds.theta), se |-> ds.se,
         obj |-> IF ds.mcq_total + ds.sjt_total = 0 THEN 0
                 ELSE (ds.mcq_correct * Milli + ds.sjt_sum)
                          \div (ds.mcq_total + ds.sjt_total),
         open |-> frac(ds.open_sum, ds.open_total),
         sr |-> frac(ds.sr_sum, ds.sr_total)]

\* A faulty norm_score that leaves out the cap.
norm_score_uncapped(ds) == ((composite(ds).score + 50) \div 100) * 100

\* The norm_score finalize reports for a domain: the composite score, capped
\* when no OPEN item was answered, rounded to a tenth of a point.
norm_score(ds) ==
    LET score == composite(ds).score
        capped == IF ds.open_total = 0 /\ score > A_CAP * Milli
                  THEN A_CAP * Milli ELSE score
    IN  ((capped + 50) \div 100) * 100

\* The per-domain shortfall of objective answers finalize starts from.
shortfalls_all ==
    LET obj_min == IF run_type = "short" THEN OBJ_MIN_SHORT ELSE OBJ_MIN_LONG
    IN  [d \in DomainSet |-> Max(0, obj_min - domains[d].obj_count)]

\* A faulty meta block that reports a shortfall only once the cap is hit.
finalize_meta_at_cap ==
    LET remaining_minima == SumOver(DomainSet, shortfalls_all)
        hit == remaining_minima > 0 /\ step >= cap
    IN  [run |-> run_type, cap |-> cap, steps_total |-> step,
         steps_remaining |-> Max(cap - step, 0),
         incomplete |-> hit,
         incomplete_reason |-> IF hit THEN "CAP_BEFORE_MINIMA" ELSE None,
         shortfalls |-> IF hit
                        THEN [d \in {e \in DomainSet : shortfalls_all[e] > 0}
                                 |-> shortfalls_all[d]]
                        ELSE <<>>]

\* The meta block of finalize's result (engine.py 1012-1031).  The shortfall
\* dict is a function on the domains it holds, the empty dict is <<>>.
finalize_meta ==
    LET remaining_minima == SumOver(DomainSet, shortfalls_all)
    IN  [run |-> run_type, cap |-> cap, steps_total |-> step,
         steps_remaining |-> Max(cap - step, 0),
         incomplete |-> remaining_minima > 0,
         incomplete_reason |-> IF remaining_minima > 0
                               THEN "CAP_BEFORE_MINIMA" ELSE None,
         shortfalls |-> IF remaining_minima > 0
                        THEN [d \in {e \in DomainSet : shortfalls_all[e] > 0}
                                 |-> shortfalls_all[d]]
                        ELSE <<>>]

\* A faulty loop body that writes the cap back into the ability of a domain
\* without OPEN answers.
finalized_capping_theta(st) ==
    IF st.open_total = 0 /\ composite(st).score > A_CAP * Milli
    THEN [st EXCEPT !.theta = 1250] ELSE st

\* The Domain State after finalize's loop over the domains: the loop reads
\* it, and the cap changes the local score only (engine.py 889-897).
finalized(st) == st

\* A faulty flag rule that is content with one self-report answer.
hidden_skills_from_one_answer ==
    {d \in DomainSet :
        /\ domains[d].mcq_total + domains[d].sjt_total >= 3
        /\ domains[d].sr_total >= 1
        /\ composite(domains[d]).obj - composite(domains[d]).sr >= 120}

\* The domains finalize flags as undervalued: objective accuracy at least
\* 0.12 above the self-reported fraction, on at least 3 objective and 3
\* self-report answers (engine.py 979-986).
hidden_skills ==
    {d \in DomainSet :
        /\ domains[d].mcq_total + domains[d].sjt_total >= 3
        /\ domains[d].sr_total >= 3
        /\ composite(domains[d]).obj - composite(domains[d]).sr >= 120}

\* What finalize returns: the reported score of each domain, the flagged
\* domains and the meta block.
finalize_result ==
    [norm_score |-> [d \in DomainSet |-> norm_score(domains[d])],
     hidden |-> hidden_skills,
     meta |-> finalize_meta,
     audit_events |-> audit_events]

\* AdaptiveSession.finalize, at any point of the session.
Finalize ==
    /\ domains' = [d \in DomainSet |-> finalized(domains[d])]
    /\ calls' = [NoCalls EXCEPT
                    !.last = <<[kind |-> "finalize", result |-> finalize_result]>>,
                    !.returned = calls.returned]
    /\ UNCHANGED <<run_type, cap, bank_id, respondent, seeded, asked,
                   seen_variant_groups, current, target_level, step,
                   last_domain_id, last_item_type, last_pick_was_sr, served,
                   reserves, audit_events, now, first_run, api_vars>>

NextReport == NextItem \/ AnswerCurrent \/ Finalize

\* Seeded sessions on the small bank, reported at any point.
SpecReport == InitReplay /\ [][NextReport]_vars

\* ------------------------------- api/app.py: the sessions of one server

\* OPEN answers a session of the server is given.
MaxOpenAnswers == 2

\* llm_bridge.backend_in_use: read from the process environment at each call.
backend_in_use ==
    IF environ.LLM_BACKEND \in {"azure", "ollama"} THEN environ.LLM_BACKEND
    ELSE "none"

\* The grader score_open runs: the remote one for azure, else the heuristic.
open_grader == IF backend_in_use = "azure" THEN "azure" ELSE "heuristic"

\* A server with no session.  The engine of each session is the one of Spec
\* and stays as constructed here; what the handlers share is kept.
InitServer ==
    \E sc \in {c \in Scenarios : c.seeded /\ c.respondent = "strong"} :
        InitSession("short", sc)

\* POST /session/start with the AZURE_* variables present: a grader other
\* than "none" is written to the process environment, then the session is
\* built and stored.
start(sid, llm) ==
    /\ SESS[sid] = <<>>
    /\ environ' = IF llm # "none"
                  THEN [environ EXCEPT !.USE_LLM_OPEN = TRUE, !.LLM_BACKEND = llm]
                  ELSE environ
    /\ SESS' = [SESS EXCEPT ![sid] = <<[llm |-> llm, graded |-> <<>>]>>]
    /\ UNCHANGED <<run_type, cap, bank_id, domains, asked, seen_variant_groups,
                   current, target_level, step, last_domain_id, last_item_type,
                   last_pick_was_sr, served, reserves, respondent, seeded, calls,
                   audit_events, now, first_run>>

\* POST /session/{sid}/answer for a pending OPEN item: answer_current has
\* score_open grade the text.
answer(sid) ==
    /\ SESS[sid] # <<>>
    /\ Len(SESS[sid][1].graded) < MaxOpenAnswers
    /\ SESS' = [SESS EXCEPT ![sid] =
                   <<[@[1] EXCEPT !.graded = Append(@, open_grader)]>>]
    /\ UNCHANGED <<run_type, cap, bank_id, domains, asked, seen_variant_groups,
                   current, target_level, step, last_domain_id, last_item_type,
                   last_pick_was_sr, served, reserves, respondent, seeded, calls,
                   audit_events, now, first_run, environ>>

NextServer ==
    \/ \E sid \in SessionIds, llm \in Backends : start(sid, llm)
    \/ \E sid \in SessionIds : answer(sid)

SpecServer == InitServer /\ [][NextServer]_vars

\* ------------------- api/app.py: answers to one session in parallel

\* Requests to POST /api/test/answer a session has under way at once; the
\* handler is a plain function, which the server runs on worker threads, and
\* neither it nor the session takes a lock.
MaxRequests == 2

\* A call of answer_current finds an item pending and reads it (engine.py
\* 602-603).
ReadPending ==
    /\ current # NoItem
    /\ Len(calls.in_flight) < MaxRequests
    /\ calls' = [calls EXCEPT !.in_flight =
                    Append(@, [item |-> current, target_level |-> target_level])]
    /\ UNCHANGED <<run_type, cap, bank_id, respondent, seeded, domains, asked,
                   seen_variant_groups, current, target_level, step,
                   last_domain_id, last_item_type, last_pick_was_sr, served,
                   reserves, audit_events, now, first_run, api_vars>>

\* A call of answer_current that has read its item scores it and writes the
\* session (engine.py 604-837), whatever the other calls did meanwhile.
CreditRead ==
    \E i \in 1..Len(calls.in_flight) :
        Credit(calls.in_flight[i].item, calls.in_flight[i].target_level,
               [k \in 1..(Len(calls.in_flight) - 1) |->
                   calls.in_flight[IF k < i THEN k ELSE k + 1]])

NextParallel == NextItem \/ ReadPending \/ CreditRead

\* A seeded short session on the small bank, under the overridden cap, whose
\* answers, alternating between right and wrong, arrive in parallel.
ParallelScenario ==
    [bank |-> "small", capped |-> <<CapOverride>>, respondent |-> "alternating",
     retries |-> 0, seeded |-> TRUE, cfg |-> NoConfig]

InitParallel == InitSession("short", ParallelScenario)

SpecParallel == InitParallel /\ [][NextParallel]_vars

\* ----------------------- engine.py: the update functions called directly

\* Calls made on one DomainState, as the ladder and residual tests make them.
MaxCalls == 6
\* Of those, the calls of _apply_open_step.
MaxOpenCalls == 2
\* Of those, the calls of _apply_objective_step whose target_level is not the
\* state's level.
MaxOffLevel == 1

\* The domain whose state the direct calls update.
Subject == DOMAINS[1]

\* DomainState(level=...) as the tests construct it.
InitDomain ==
    /\ run_type \in {"short", "long"}
    /\ cap = IF run_type = "short" THEN CAP_SHORT ELSE CAP_LONG
    /\ bank_id = "small"
    /\ respondent = "any"
    /\ seeded = FALSE
    /\ \E lvl \in {LEVEL_MIN, 0, LEVEL_MAX} :
          domains = [d \in DomainSet |-> [DomainState EXCEPT !.level = lvl]]
    /\ asked = {}
    /\ seen_variant_groups = {}
    /\ current = NoItem
    /\ target_level = <<>>
    /\ step = 0
    /\ last_domain_id = None
    /\ last_item_type = None
    /\ last_pick_was_sr = FALSE
    /\ served = <<>>
    /\ reserves = 0
    /\ calls = NoCalls
    /\ audit_events = <<>>
    /\ now = 0
    /\ first_run = <<>>
    /\ environ = NoEnviron
    /\ SESS = NoSessions

session_unchanged ==
    UNCHANGED <<run_type, cap, bank_id, respondent, seeded, asked,
                seen_variant_groups, current, target_level, step, last_domain_id,
                last_item_type, last_pick_was_sr, served, reserves, audit_events,
                now, first_run, api_vars>>

\* Whether the promotion branch (engine.py 225-229) ran in the step from
\* before to after: the level rose, or stayed clamped at the top with the
\* window cleared.
promoted_at(before, after) ==
    \/ after.level > before.level
    \/ /\ before.level = LEVEL_MAX
       /\ after.level = LEVEL_MAX
       /\ after.recent_window = <<>>

\* The record of the calls after an objective answer took the state from
\* before to after; promoted holds the highest level at which the promotion
\* condition was satisfied so far.
logged(correct, on_level, before, after) ==
    [calls EXCEPT
        !.total = @ + 1,
        !.off_level = IF on_level THEN @ ELSE @ + 1,
        !.since_change = IF after.level # before.level \/ after.recent_window = <<>>
                         THEN 0 ELSE @ + 1,
        !.promoted = IF promoted_at(before, after)
                     THEN <<IF @ = <<>> THEN before.level
                            ELSE Max(@[1], before.level)>>
                     ELSE @,
        !.last = <<[kind |-> "objective", correct |-> correct,
                    on_level |-> on_level, latency_ms |-> 0]>>]

\* _apply_objective_step(state, level, correct, run_type[, target_level]) on
\* an item of the state's level, the target level left out or the level.
ObjectiveStep ==
    /\ calls.total < MaxCalls
    /\ \E correct \in BOOLEAN, tl \in {<<>>, <<domains[Subject].level>>} :
          LET before == domains[Subject]
              after == apply_objective_step(before, before.level, correct,
                                            run_type, tl)
          IN  /\ domains' = [domains EXCEPT ![Subject] = after]
              /\ calls' = logged(correct, TRUE, before, after)
    /\ session_unchanged

\* The same call for an item served for another level than the state's: an
\* out-of-range difficulty and the target level one above.
OffLevelStep ==
    /\ calls.total < MaxCalls
    /\ calls.off_level < MaxOffLevel
    /\ \E correct \in BOOLEAN :
          LET before == domains[Subject]
              after == apply_objective_step(before, 3, correct, run_type,
                                            <<before.level + 1>>)
          IN  /\ domains' = [domains EXCEPT ![Subject] = after]
              /\ calls' = logged(correct, FALSE, before, after)
    /\ session_unchanged

\* The arguments of the direct calls of _apply_open_step: score, word count,
\* latency and rubric confidence.
OpenInputs ==
    {[score |-> 900, words |-> 180, latency_ms |-> 2500, rubric_conf |-> <<800>>],
     [score |-> 100, words |-> 50, latency_ms |-> 2500, rubric_conf |-> <<>>],
     [score |-> 900, words |-> 50, latency_ms |-> 200, rubric_conf |-> <<900>>]}

\* _apply_open_step(state, difficulty, score, word_count, latency_ms,
\* rubric_conf).
OpenStep ==
    /\ calls.total < MaxCalls
    /\ calls.open < MaxOpenCalls
    /\ \E inp \in OpenInputs, difficulty \in {-2, 1} :
          /\ domains' = [domains EXCEPT ![Subject] =
                           apply_open_step(@, difficulty, inp.score, inp.words,
                                           inp.latency_ms, inp.rubric_conf)]
          /\ calls' = [calls EXCEPT
                         !.total = @ + 1, !.open = @ + 1,
                         !.last = <<[kind |-> "open", correct |-> FALSE,
                                     on_level |-> TRUE,
                                     latency_ms |-> inp.latency_ms]>>]
    /\ session_unchanged

NextDomain == ObjectiveStep \/ OffLevelStep \/ OpenStep

SpecDomain == InitDomain /\ [][NextDomain]_vars

\* ------------------------------------------------------------ properties

\* The domains short of the minimum of objective answers (4 short, 8 long).
BelowMinimum ==
    {d \in DomainSet :
        domains[d].obj_count < (IF run_type = "short" THEN OBJ_MIN_SHORT
                                ELSE OBJ_MIN_LONG)}

\* Every domain has met its standard-error target or reached its maximum of
\* objective answers.
ObjectiveTargetsMet ==
    \A d \in DomainSet :
        \/ domains[d].se <= (IF run_type = "short" THEN SE_TARGET_SHORT
                             ELSE SE_TARGET_LONG)
        \/ domains[d].obj_count >= (IF run_type = "short" THEN OBJ_MAX_SHORT
                                    ELSE OBJ_MAX_LONG)

SelfReportQuotaMet ==
    \A d \in DomainSet :
        domains[d].sr_count >= (IF run_type = "short" THEN SR_PER_DOMAIN_SHORT
                                ELSE SR_PER_DOMAIN_LONG)

NoOpenEligible ==
    ~open_candidate_exists(policy_state, bounds(run_type).obj_min)

NextItemReturnsNone ==
    \/ should_stop(policy_state)
    \/ \A pick \in policy_next_item(policy_state, last_pick_was_sr) :
          pick.item = NoItem

\* C1: while steps remain, should_stop is true and next_item returns none as
\* soon as every domain has met its standard-error target or reached its
\* maximum of objective answers, every self-report quota is met and no
\* free-text item is eligible.
StopsOnceTargetsMet ==
    (step < cap /\ ObjectiveTargetsMet /\ SelfReportQuotaMet /\ NoOpenEligible)
        => (should_stop(policy_state) /\ NextItemReturnsNone)

\* C2: the number of accepted answers never exceeds the step cap; once it has
\* reached the cap should_stop is true, next_item returns none and, no item
\* pending, answer_current accepts nothing.
StepWithinCap ==
    /\ step <= cap
    /\ step >= cap =>
          /\ should_stop(policy_state)
          /\ \A pick \in policy_next_item(policy_state, last_pick_was_sr) :
                pick.item = NoItem
          /\ current = NoItem

CapReached == step = cap /\ run_type = "long" /\ Len(served) = cap

\* C3: while steps remain and some domain is short of the minimum of
\* objective answers, should_stop is false.
NoStopBelowMinimum ==
    (step < cap /\ BelowMinimum # {}) => ~should_stop(policy_state)

OneDomainStillBelow ==
    /\ step < cap
    /\ BelowMinimum # {}
    /\ BelowMinimum # DomainSet
    /\ ~should_stop(policy_state)

\* C4: while some domain is short of the minimum of objective answers, only
\* MCQ and SJT items have been served and no domain is past the minimum; so
\* the first minimum x domains answers are objective and give every domain
\* exactly the minimum.
MinimaBeforeSelfReport ==
    LET obj_min == IF run_type = "short" THEN OBJ_MIN_SHORT ELSE OBJ_MIN_LONG
        answers == SumOver(DomainSet, [d \in DomainSet |-> domains[d].obj_count])
    IN  /\ BelowMinimum # {} =>
              /\ \A i \in 1..Len(served) : served[i].type \in {"MCQ", "SJT"}
              /\ \A d \in DomainSet : /\ domains[d].obj_count <= obj_min
                                      /\ domains[d].sr_count = 0
                                      /\ domains[d].open_count = 0
              /\ step = answers
        /\ (step = obj_min * NumDomains /\ Len(served) >= step) =>
              /\ \A i \in 1..step : served[i].type \in {"MCQ", "SJT"}
              /\ \A d \in DomainSet : domains[d].obj_count = obj_min

SelfReportAfterMinima ==
    /\ step = OBJ_MIN_SHORT * NumDomains
    /\ BelowMinimum = {}
    /\ current # NoItem
    /\ current.type = "SR"
    /\ \A i \in 1..step : served[i].type \in {"MCQ", "SJT"}

\* C5: no two items returned by next_item share a variant group.
NoSharedVariantGroup ==
    \A i, j \in 1..Len(served) :
        (i # j /\ served[i].variant_group # <<>>)
            => served[i].variant_group # served[j].variant_group

\* One of two items sharing a variant group has been served, then answered,
\* and the session has gone on to empty the domain's objective pool.
VariantServedOnce ==
    /\ \E i \in 1..Len(served) :
          /\ served[i].variant_group # <<>>
          /\ \E it \in Items \ {served[i]} :
                it.variant_group = served[i].variant_group
          /\ served[i].id \in asked
    /\ \A it \in Items :
          (it.domain = DOMAINS[1] /\ it.type \in {"MCQ", "SJT"})
              => ~is_unseen(it, policy_state)

\* C6: no item is returned by next_item more than once, also when next_item
\* is called again before the pending item is answered.
NoItemServedTwice ==
    \A i, j \in 1..Len(served) : i # j => served[i].id # served[j].id

\* C7: no accepted answer lowers a domain's info_total, obj_info_total or
\* open_info_total, or raises its standard error.
InformationMonotone ==
    [][\A d \in DomainSet :
          /\ domains'[d].info_total >= domains[d].info_total
          /\ domains'[d].obj_info_total >= domains[d].obj_info_total
          /\ domains'[d].open_info_total >= domains[d].open_info_total
          /\ domains'[d].se <= domains[d].se]_vars

AllKindsAnswered ==
    \E d \in DomainSet :
        /\ domains[d].obj_info_total > 0
        /\ domains[d].open_info_total > 0
        /\ domains[d].sr_count > 0
        /\ domains[d].se < Milli

\* C8: every domain's ladder level lies in [-2, 2], at session start with or
\* without self-report means or ability priors and after every promotion or
\* demotion.
LevelInRange ==
    \A d \in DomainSet : domains[d].level >= -2 /\ domains[d].level <= 2

\* A session started from priors beyond both ends of the ladder has since
\* moved one domain off its end.
PriorsClampedThenMoved ==
    /\ step > 0
    /\ domains[DOMAINS[1]].b_stable = LEVEL_MAX
    /\ domains[DOMAINS[1]].level < LEVEL_MAX
    /\ domains[DOMAINS[2]].level = LEVEL_MIN

\* The window a direct objective call evaluates: the rolling window with the
\* call's answer added.
PassRuleMet(window, correct) ==
    LET need == IF run_type = "short" THEN 2 ELSE 3
        size == IF run_type = "short" THEN 3 ELSE 4
        w == LastN(Append(window, correct), size)
    IN  Len(w) = size /\ CountTrue(w) >= need

\* C9: the objective answer at the state's level that makes the rolling
\* window satisfy the pass rule (2 of 3 short, 3 of 4 long) raises the level
\* by exactly one, clamped to the maximum, and leaves the window empty and
\* the seen-at-level counter at zero.
PassRulePromotes ==
    [][(/\ calls'.total = calls.total + 1
        /\ calls'.last[1].kind = "objective"
        /\ calls'.last[1].on_level
        /\ PassRuleMet(domains[Subject].recent_window, calls'.last[1].correct))
       => /\ domains'[Subject].level = Min(domains[Subject].level + 1, 2)
          /\ domains'[Subject].recent_window = <<>>
          /\ domains'[Subject].level_entry_seen = 0]_vars

PromotedInLongRun ==
    /\ run_type = "long"
    /\ calls.total = 4
    /\ calls.open = 0
    /\ calls.off_level = 0
    /\ domains[Subject].level = 1
    /\ domains[Subject].recent_window = <<>>
    /\ domains[Subject].level_entry_seen = 0

\* C10: promotion never fires before a full window of answers (3 short, 4
\* long) has been recorded at the level since the ladder last moved.
PromotionNeedsFullWindow ==
    [][(/\ calls'.total = calls.total + 1
        /\ calls'.last[1].kind = "objective"
        /\ \/ domains'[Subject].level > domains[Subject].level
           \/ /\ domains[Subject].level = LEVEL_MAX
              /\ domains'[Subject].level = LEVEL_MAX
              /\ domains'[Subject].recent_window = <<>>)
       => calls.since_change + 1 >= (IF run_type = "short" THEN 3 ELSE 4)]_vars

\* Two correct answers given, the pass count reached, the level unchanged.
EnoughCorrectWindowNotFull ==
    /\ run_type = "short"
    /\ calls.total = 2
    /\ domains[Subject].recent_window = <<TRUE, TRUE>>
    /\ domains[Subject].level = 0
    /\ domains[Subject].b_stable = 0

\* The misses among the last three answers of the rolling window with the
\* call's answer added, and whether three answers are there.
DemoteRuleMet(window, correct) ==
    LET w == LastN(Append(window, correct), 3)
    IN  Len(w) = 3 /\ 3 - CountTrue(w) >= 2

\* A direct objective call that demoted: the level fell, or it stayed at the
\* minimum while the window was cleared.
Demoted ==
    /\ calls'.total = calls.total + 1
    /\ calls'.last[1].kind = "objective"
    /\ \/ domains'[Subject].level < domains[Subject].level
       \/ /\ domains[Subject].level = LEVEL_MIN
          /\ domains'[Subject].level = LEVEL_MIN
          /\ domains'[Subject].recent_window = <<>>

\* C11: an objective answer demotes only when promotion did not fire on it,
\* it is not the first answer since the last level change and at least 2 of
\* the last 3 answers at the level are misses; the level then drops by
\* exactly one, clamped to the minimum, and the rolling window is cleared.
DemotionGuarded ==
    [][Demoted
       => /\ calls'.last[1].on_level
          /\ ~PassRuleMet(domains[Subject].recent_window, calls'.last[1].correct)
          /\ calls.since_change >= 1
          /\ DemoteRuleMet(domains[Subject].recent_window, calls'.last[1].correct)
          /\ domains'[Subject].level = Max(domains[Subject].level - 1, -2)
          /\ domains'[Subject].recent_window = <<>>]_vars

\* Promoted by two hits and a miss, then demoted by three misses, as the
\* demotion guard test does.
DemotedAfterPromotion ==
    /\ run_type = "short"
    /\ calls.total = 6
    /\ calls.open = 0
    /\ calls.off_level = 0
    /\ calls.since_change = 0
    /\ domains[Subject].b_stable = 0
    /\ domains[Subject].b_peak = 1
    /\ domains[Subject].level = 0
    /\ domains[Subject].recent_window = <<>>

\* C12: after any sequence of objective and free-text answers on a domain its
\* cumulative free-text information is at most OPEN_INFO_CAP_RATIO (0.20)
\* times its cumulative objective information.
OpenInfoWithinCap ==
    domains[Subject].open_info_total
        <= MulMilli(domains[Subject].obj_info_total, OPEN_INFO_CAP_RATIO)

\* C13: a free-text answer whose latency is below 1500 ms leaves the
\* domain's ability, information totals and standard error unchanged, while
\* the free-text count grows by one and a contribution record flagged as
\* ignored for latency is appended.
FastOpenAnswerIgnored ==
    [][(/\ calls'.total = calls.total + 1
        /\ calls'.last[1].kind = "open"
        /\ calls'.last[1].latency_ms < 1500)
       => LET before == domains[Subject]
              after == domains'[Subject]
              n == Len(before.open_contrib)
          IN  /\ after.theta = before.theta
              /\ after.info_total = before.info_total
              /\ after.obj_info_total = before.obj_info_total
              /\ after.open_info_total = before.open_info_total
              /\ after.se = before.se
              /\ after.open_count = before.open_count + 1
              /\ Len(after.open_contrib) = n + 1
              /\ SubSeq(after.open_contrib, 1, n) = before.open_contrib
              /\ after.open_contrib[n + 1].ignored = "latency"
              /\ after.open_contrib[n + 1].dtheta = 0]_vars

\* A fast free-text answer given after objective answers moved the ability.
FastOpenAnswerGiven ==
    /\ calls.total >= 3
    /\ calls.last # <<>>
    /\ calls.last[1].kind = "open"
    /\ calls.last[1].latency_ms = 200
    /\ domains[Subject].obj_count >= 2
    /\ domains[Subject].theta # 0
    /\ domains[Subject].open_count = 1
    /\ domains[Subject].open_contrib[1].ignored = "latency"

\* C14: answering a self-report item leaves the domain's ability,
\* information totals, standard error, ladder level and rolling window
\* unchanged, so the calibrated score finalize reports for the domain is the
\* same whatever the self-report answer is.
SelfReportLeavesScore ==
    [][(current # NoItem /\ current.type = "SR" /\ step' = step + 1)
       => LET before == domains[current.domain]
              after == domains'[current.domain]
          IN  /\ after.theta = before.theta
              /\ after.info_total = before.info_total
              /\ after.obj_info_total = before.obj_info_total
              /\ after.open_info_total = before.open_info_total
              /\ after.se = before.se
              /\ after.level = before.level
              /\ after.recent_window = before.recent_window
              /\ norm_score(after) = norm_score(before)
              /\ after.sr_total = before.sr_total + 1]_vars

\* A self-report answer of full agreement given to a domain whose ability
\* the objective answers had moved.
SelfReportAnswered ==
    /\ last_item_type = "SR"
    /\ current = NoItem
    /\ \E d \in DomainSet :
          /\ last_domain_id = d
          /\ domains[d].sr_total >= 1
          /\ domains[d].sr_sum = domains[d].sr_total * Milli
          /\ domains[d].theta # 0
          /\ composite(domains[d]).sr = Milli
          /\ norm_score(domains[d]) # norm_score(DomainState)

\* C15: finalize reports incomplete exactly when some domain has fewer than
\* the minimum of objective answers; the shortfall set then holds exactly
\* those domains, each with the positive count minimum minus answers;
\* otherwise incomplete is false and the shortfall set is empty.
FinalizeReportsShortfalls ==
    LET minimum == IF run_type = "short" THEN 4 ELSE 8
        short == {d \in DomainSet : domains[d].obj_count < minimum}
        meta == finalize_meta
    IN  /\ meta.incomplete = (short # {})
        /\ DOMAIN meta.shortfalls = short
        /\ \A d \in short : /\ meta.shortfalls[d] = minimum - domains[d].obj_count
                             /\ meta.shortfalls[d] > 0
        /\ (short = {}) => (meta.shortfalls = <<>>)

\* One domain at the minimum, the other one answer short, budget left.
OneDomainShort ==
    /\ run_type = "short"
    /\ step < cap
    /\ domains[DOMAINS[1]].obj_count = 4
    /\ domains[DOMAINS[2]].obj_count = 3
    /\ finalize_meta.incomplete
    /\ DOMAIN finalize_meta.shortfalls = {DOMAINS[2]}

\* C16: an answer submitted when no item is pending is rejected as a hard
\* failure: answer_current signals an error instead of completing normally.
AnswerWithoutPendingRaises ==
    (/\ calls.last # <<>>
     /\ calls.last[1].kind = "answer_current"
     /\ ~calls.last[1].pending)
    => calls.last[1].raised

\* C17: whatever the value of an answer submitted for a pending item,
\* answer_current completes without raising.
AnswerForPendingNeverRaises ==
    (/\ calls.last # <<>>
     /\ calls.last[1].kind = "answer_current"
     /\ calls.last[1].pending)
    => ~calls.last[1].raised

\* The second session has been given the answers the first one was given.
SameAnswersGiven ==
    /\ first_run # <<>>
    /\ current = NoItem
    /\ Len(audit_events) = Len(first_run[1].audit_events)
    /\ \A i \in 1..Len(audit_events) :
          audit_events[i].correct_or_r = first_run[1].audit_events[i].correct_or_r

\* C18: two freshly constructed sessions given the same seed and the same
\* answer sequence serve the same item sequence and produce identical audit
\* trails.
ReplayIsIdentical ==
    SameAnswersGiven => /\ served = first_run[1].served
                        /\ audit_events = first_run[1].audit_events

\* C19: sessions running concurrently share no mutable state: a step that is
\* not a step of a session never changes how that session's answers are
\* scored.
OtherSessionsLeaveScoringAlone ==
    [][\A sid \in SessionIds :
          (SESS[sid] # <<>> /\ SESS'[sid] = SESS[sid])
              => open_grader' = open_grader]_vars

\* C20: in a long run where every served item is answered correctly, every
\* domain's level reaches the maximum (+2) and every domain's standard error
\* falls below the long-run target (0.25) before the step budget (160) is
\* reached.  Correct answers never demote and the standard error never
\* rises, so a run that got there is still there when it is over.
AllCorrectReachesTargets ==
    (run_type = "long" /\ respondent = "strong" /\ SessionOver)
    => /\ step <= 160
       /\ \A d \in DomainSet : /\ domains[d].level = 2
                                /\ domains[d].se < 250

\* C21: every session terminates within cap accepted answers.  The steps
\* left, cap - step, never grow and never fall below zero, every accepted
\* answer (one more audit event) takes one of them, and once none is left no
\* item is pending and next_item returns none: a session whose served items
\* are answered is over after at most cap answers.
SessionTerminates ==
    /\ [](step <= cap /\ (step = cap => SessionOver))
    /\ [][/\ cap' = cap
          /\ step' >= step
          /\ (audit_events' # audit_events) => step' = step + 1
          /\ (step' = step) => audit_events' = audit_events]_vars

\* A short session over at the cap, every one of its items answered, and
\* next_item asked once more.
EndedAtCap ==
    /\ run_type = "short"
    /\ step = cap
    /\ Len(audit_events) = cap
    /\ SessionOver
    /\ calls.last = <<>>
    /\ calls.returned = "none"

\* C22: the audit trail holds exactly one event per accepted answer, in
\* answer order: its length is the step count and the number of distinct
\* asked items, an accepted answer appends the event of the item that was
\* pending, and nothing else touches the trail.
AuditTrailMatchesAnswers ==
    [][/\ Len(audit_events') = step'
       /\ Cardinality(asked') = step'
       /\ IF step' = step + 1
          THEN /\ current # NoItem
               /\ Len(audit_events') = Len(audit_events) + 1
               /\ SubSeq(audit_events', 1, Len(audit_events)) = audit_events
               /\ audit_events'[step'].item_id = current.id
               /\ audit_events'[step'].domain = current.domain
               /\ audit_events'[step'].type = current.type
          ELSE audit_events' = audit_events]_vars

\* Answers of every kind accepted, one of them for an item served when
\* another was pending, and a call of next_item that served nothing new.
AuditedAfterReserve ==
    /\ current = NoItem
    /\ step >= 3
    /\ Len(served) > step
    /\ {audit_events[i].type : i \in 1..Len(audit_events)}
          = {"MCQ", "SJT", "SR"}

\* C23: a domain that received no free-text answer has a final score of at
\* most 80 points in finalize; a short run serves no free-text item, so each
\* of its domains has received none and scores at most 80.
ScoreCappedWithoutOpen ==
    \A d \in DomainSet :
        /\ domains[d].open_total = 0 => norm_score(domains[d]) <= A_CAP * Milli
        /\ run_type = "short" =>
              /\ \A i \in 1..Len(served) : served[i].type # "OPEN"
              /\ domains[d].open_total = 0
              /\ norm_score(domains[d]) <= A_CAP * Milli

\* A short run over, one domain's uncapped score above 80 points and its
\* reported score 80.
CapAppliedInShortRun ==
    /\ run_type = "short"
    /\ SessionOver
    /\ \E d \in DomainSet :
          /\ domains[d].obj_count >= OBJ_MIN_SHORT
          /\ composite(domains[d]).score > A_CAP * Milli
          /\ norm_score(domains[d]) = A_CAP * Milli

\* C24: finalize leaves the session unchanged: every Domain State, the asked
\* set, the seen variant groups, the step count, the pending item and the
\* audit trail are the same after finalize as before, whenever it is called
\* and however often; what it returns is computed from that state.
FinalizeLeavesSession ==
    [][(calls'.last # <<>> /\ calls'.last[1].kind = "finalize")
          => /\ domains' = domains
             /\ asked' = asked
             /\ seen_variant_groups' = seen_variant_groups
             /\ step' = step
             /\ current' = current
             /\ audit_events' = audit_events
             /\ served' = served
             /\ last_pick_was_sr' = last_pick_was_sr
             /\ calls'.last[1].result = finalize_result]_vars

\* finalize called while an item is pending, the session part-way through
\* and one domain's reported score at the cap.
FinalizedMidSession ==
    /\ calls.last # <<>>
    /\ calls.last[1].kind = "finalize"
    /\ current # NoItem
    /\ step >= OBJ_MIN_SHORT
    /\ step < cap
    /\ \E d \in DomainSet :
          /\ composite(domains[d]).score > A_CAP * Milli
          /\ calls.last[1].result.norm_score[d] = A_CAP * Milli


UnknownKindNeverServed ==
    /\ \A i \in 1..Len(served) : served[i].type \in KnownKinds
    /\ current # NoItem => current.type \in KnownKinds

\* C26: next_item returns an OPEN item for a domain only if the domain has no
\* OPEN answer yet, at least 4 objective answers and a standard error of at
\* most 0.45, or has exactly one OPEN answer, a standard error of at most
\* 0.30 and a first OPEN contribution that was not ignored and earned a
\* credit of at least 0.60; a domain with two OPEN answers is served no more.
OpenServedOnlyThroughGate ==
    [][(/\ Len(served') = Len(served) + 1
        /\ served'[Len(served')].type = "OPEN")
          => LET ds == domains[served'[Len(served')].domain]
             IN  /\ current' = served'[Len(served')]
                 /\ ds.open_count < 2
                 /\ ds.open_total < 2
                 /\ \/ /\ ds.open_count = 0
                       /\ ds.obj_count >= 4
                       /\ ds.se <= 450
                    \/ /\ ds.open_count = 1
                       /\ ds.se <= 300
                       /\ ds.open_contrib # <<>>
                       /\ ds.open_contrib[1].ignored = None
                       /\ ds.open_contrib[1].r >= 600]_vars

\* A second OPEN item is pending in a domain whose first OPEN answer counted.
SecondOpenServed ==
    /\ current # NoItem
    /\ current.type = "OPEN"
    /\ domains[current.domain].open_count = 1
    /\ domains[current.domain].se <= 300
    /\ domains[current.domain].open_contrib[1].r >= 600


\* C27: in every state of a session, each domain has answered at most its
\* quota of self-report items: 1 in a short run, 2 in a long run.
SelfReportWithinQuota ==
    \A d \in DomainSet :
        /\ domains[d].sr_count <= (IF run_type = "short" THEN 1 ELSE 2)
        /\ domains[d].sr_count =
              Cardinality({id \in asked : id[1] = d /\ id[2] = "SR"})

\* A short run has gone on past a domain's quota: the domain has answered its
\* one self-report item, still has one unseen, and an objective item of it is
\* pending.
QuotaReachedWithItemsLeft ==
    /\ run_type = "short"
    /\ current # NoItem
    /\ current.type \in {"MCQ", "SJT"}
    /\ domains[current.domain].sr_count = 1
    /\ \E it \in Items : /\ it.domain = current.domain
                         /\ it.type = "SR"
                         /\ is_unseen(it, policy_state)


\* C28: next_item does not return self-report items on two calls in a row
\* while a domain is still in stage B or stage C (not objective-done, with
\* its standard error above the target or fewer objective answers than the
\* maximum), unless the steps left are no more than the self-report answers
\* still owed.
NoSelfReportTwiceRunning ==
    [][(/\ calls.returned = "SR"
        /\ calls'.returned = "SR"
        /\ calls'.last = <<>>
        /\ Len(served') = Len(served) + 1)
          => LET quota == IF run_type = "short" THEN 1 ELSE 2
                 se_target == IF run_type = "short" THEN 350 ELSE 250
                 obj_max == IF run_type = "short" THEN 12 ELSE 16
                 owed == SumOver(DomainSet,
                                 [d \in DomainSet |->
                                     Max(0, quota - domains[d].sr_count)])
                 stage_b == {d \in DomainSet : /\ ~domains[d].obj_done
                                               /\ domains[d].se > se_target}
                 stage_c == {d \in DomainSet : /\ ~domains[d].obj_done
                                               /\ domains[d].obj_count < obj_max}
             IN  \/ stage_b = {} /\ stage_c = {}
                 \/ cap - step <= owed]_vars

\* Two self-report items running, the second pending: a domain was not yet
\* objective-done when it was served, and one step was left for the one
\* self-report answer owed.
SelfReportTwiceAtBudgetEnd ==
    /\ calls.returned = "SR"
    /\ calls.last = <<>>
    /\ Len(served) >= 2
    /\ served[Len(served) - 1].type = "SR"
    /\ current = served[Len(served)]
    /\ \E d \in DomainSet : ~domains[d].obj_done
    /\ cap - step = 1


\* C29: an objective item next_item serves for a domain comes from the first
\* bucket, in the order level, level+1, level-1, level+2, level-2 (each
\* clamped to -2..2), that holds an item of the domain not yet asked and of
\* an unseen variant group: while a bucket of that order has such an item, no
\* item of a farther bucket, or of a bucket outside the order, is served.
ServedFromNearestBucket ==
    [][(/\ Len(served') = Len(served) + 1
        /\ served'[Len(served')].type \in {"MCQ", "SJT"})
          => LET it == served'[Len(served')]
                 level == domains[it.domain].level
                 order == <<Max(Min(level, 2), -2), Max(Min(level + 1, 2), -2),
                            Max(Min(level - 1, 2), -2), Max(Min(level + 2, 2), -2),
                            Max(Min(level - 2, 2), -2)>>
                 candidates(lvl) ==
                    {c \in Items :
                        /\ c.domain = it.domain
                        /\ c.type \in {"MCQ", "SJT"}
                        /\ Max(Min(c.difficulty, 2), -2) = lvl
                        /\ c.id \notin asked
                        /\ ~(c.variant_group # <<>>
                             /\ c.variant_group \in seen_variant_groups)}
             IN  (\E j \in 1..5 : candidates(order[j]) # {})
                 => \E i \in 1..5 :
                       /\ order[i] = Max(Min(it.difficulty, 2), -2)
                       /\ \A j \in 1..(i - 1) : candidates(order[j]) = {}]_vars


\* C30: while steps remain and should_stop is false, next_item returns None
\* only if no objective item is left, in any domain, that is not yet asked
\* and outside every served variant group.
NoneOnlyWhenBankExhausted ==
    [][(/\ step < cap
        /\ ~should_stop(policy_state)
        /\ calls'.last = <<>>
        /\ calls'.returned = "none"
        /\ current' = NoItem
        /\ served' = served)
          => ~\E it \in Items :
                 /\ it.type \in {"MCQ", "SJT"}
                 /\ it.id \notin asked
                 /\ ~(it.variant_group # <<>>
                      /\ it.variant_group \in seen_variant_groups)]_vars

\* C31: finalize marks a result incomplete, with the reason CAP_BEFORE_MINIMA,
\* only when the step budget was exhausted (step >= cap) before the objective
\* minima were met: a session finalized with steps remaining is not reported
\* as having hit the cap.
IncompleteOnlyAtCap ==
    [][(/\ calls'.last # <<>>
        /\ calls'.last[1].kind = "finalize"
        /\ calls'.last[1].result.meta.incomplete)
          => /\ calls'.last[1].result.meta.incomplete_reason = "CAP_BEFORE_MINIMA"
             /\ calls'.last[1].result.meta.steps_remaining = 0
             /\ step >= cap]_vars

\* C32: after any sequence of objective answers in which promotion fired at
\* least once, the domain's stable peak (b_stable) equals the highest level at
\* which the promotion condition was satisfied, for every start level in
\* [-2, 2].
StablePeakIsHighestPromotion ==
    calls.promoted # <<>> => domains[Subject].b_stable = calls.promoted[1]

\* The information a free-text answer offers a domain before the cap is
\* looked at, the cap, and the offer scaled by cap / candidate total
\* (engine.py 293-301), for an answer whose latency is not ignored.
open_offer(ds, difficulty) ==
    LET bucket == Max(Min(difficulty, 1), -1)
        mu == sigma(ds.theta - bucket * Milli)
        delta0 == ((((A_OPEN * A_OPEN) \div Milli) * (mu * (Milli - mu))) \div Milli) * 10
        candidate == ds.open_info_total + delta0
        limit == MulMilli(Max(ds.obj_info_total, EPS), OPEN_INFO_CAP_RATIO)
    IN  [over |-> candidate > limit /\ limit > 0,
         scaled |-> MulDiv(delta0, limit, candidate)]

\* C33: when a free-text answer's candidate information would push the
\* domain's free-text total over the cap, the ability delta and the
\* information contribution are multiplied by the same scale factor and the
\* information actually added to the domain equals that scaled contribution
\* (up to rounding), so the applied ability change stays proportional to the
\* applied information.
CappedOpenAddsScaledInformation ==
    [][\A difficulty \in {-2, 1} :
         (/\ calls'.total = calls.total + 1
          /\ calls'.last[1].kind = "open"
          /\ ~latency_ignored(calls'.last[1].latency_ms)
          /\ domains'[Subject].open_contrib[Len(domains'[Subject].open_contrib)].b
                = Max(Min(difficulty, 1), -1)
          /\ open_offer(domains[Subject], difficulty).over)
            => LET added == domains'[Subject].open_info_total
                              - domains[Subject].open_info_total
                   scaled == open_offer(domains[Subject], difficulty).scaled
               IN  /\ domains'[Subject].open_contrib[Len(domains'[Subject].open_contrib)].scaled
                   /\ added - scaled <= EPS
                   /\ scaled - added <= EPS]_vars

WindowClearedInTime ==
    LET ds == domains[Subject]
        most == IF run_type = "short" THEN 2 ELSE 4
    IN  /\ Len(ds.recent_window) <= 4
        /\ ds.level_entry_seen >= Len(ds.recent_window)
        /\ ds.level_entry_seen <= most
        /\ calls.off_level = 0 => calls.since_change <= most

\* A long run's domain four answers after its ladder last moved, with a full
\* window that neither passes nor demotes: the fifth answer has to clear it.
WindowFullAfterFourAnswers ==
    /\ run_type = "long"
    /\ calls.off_level = 0
    /\ calls.since_change = 4
    /\ calls.total > 4
    /\ Len(domains[Subject].recent_window) = 4
    /\ domains[Subject].level_entry_seen = 4

\* C37: in any session driven through next_item and answer_current, finalize
\* never raises an undervalued-skill flag: the flag needs at least 3
\* self-report answers in a domain, while at most 2 (long run) or 1 (short
\* run) self-report items are ever answered per domain.
FinalizeRaisesNoFlag ==
    [][(calls'.last # <<>> /\ calls'.last[1].kind = "finalize")
          => /\ calls'.last[1].result.hidden = {}
             /\ \A d \in DomainSet :
                   /\ domains[d].sr_total = domains[d].sr_count
                   /\ domains[d].sr_total <= (IF run_type = "short" THEN 1 ELSE 2)
                   /\ domains[d].sr_total < 3]_vars

\* finalize called on a domain that has its quota of self-report answers, at
\* least 3 objective answers and an objective accuracy at least 0.12 above
\* its self-reported fraction.
FinalizedWithGapBelowSampleSize ==
    /\ calls.last # <<>>
    /\ calls.last[1].kind = "finalize"
    /\ calls.last[1].result.hidden = {}
    /\ \E d \in DomainSet :
          /\ domains[d].mcq_total + domains[d].sjt_total >= 3
          /\ domains[d].sr_total = (IF run_type = "short" THEN 1 ELSE 2)
          /\ composite(domains[d]).obj - composite(domains[d]).sr >= 120

\* C38: when two answer requests for the same session are processed
\* concurrently, the pending item is credited at most once: the step count,
\* the domain's answer counts and the audit trail advance by exactly one for
\* each item answered.
PendingCreditedOnce ==
    /\ step = Cardinality(asked)
    /\ Len(audit_events) = Cardinality(asked)
    /\ \A d \in DomainSet :
          domains[d].obj_count + domains[d].sr_count + domains[d].open_count
             = Cardinality({id \in asked : id[1] = d})

\* The number of answers after which every domain had its minimum of
\* objective answers, read off the audit trail (0 while some domain has not).
minima_met_after ==
    LET obj_min == IF run_type = "short" THEN 4 ELSE 8
        met(k) == \A d \in DomainSet :
                     Cardinality({i \in 1..k : /\ audit_events[i].domain = d
                                               /\ audit_events[i].type \in {"MCQ", "SJT"}})
                        >= obj_min
        moments == {k \in 1..Len(audit_events) : met(k)}
    IN  IF moments = {} THEN 0
        ELSE CHOOSE k \in moments : \A j \in moments : k <= j

\* The self-report answers owed after the first k answers.
sr_owed_after(k) ==
    LET quota == IF run_type = "short" THEN 1 ELSE 2
    IN  SumOver(DomainSet,
                [d \in DomainSet |->
                    Max(0, quota - Cardinality({i \in 1..k :
                                                  /\ audit_events[i].domain = d
                                                  /\ audit_events[i].type = "SR"}))])

\* C39: if, at the moment all objective minima are met, the remaining step
\* budget is at least the outstanding self-report quota and every domain has
\* enough unseen self-report items (and the objective items to go on), then
\* every domain's self-report quota is met by the time the step budget is
\* exhausted.
QuotaMetWhenBudgetAllows ==
    LET quota == IF run_type = "short" THEN 1 ELSE 2
        m == minima_met_after
    IN  (/\ step >= cap
         /\ m > 0
         /\ cap - m >= sr_owed_after(m)
         /\ \A d \in DomainSet :
               Cardinality({it \in Items : it.domain = d /\ it.type = "SR"}) >= quota)
        => \A d \in DomainSet : domains[d].sr_count >= quota

\* A long run whose budget, when the minima were met, was exactly the
\* self-report answers owed, at the end of its budget with every quota met.
QuotaMetOnLastStep ==
    /\ run_type = "long"
    /\ step = cap
    /\ minima_met_after > 0
    /\ cap - minima_met_after = sr_owed_after(minima_met_after)
    /\ sr_owed_after(minima_met_after) = NumDomains * SR_PER_DOMAIN_LONG
    /\ \A d \in DomainSet : domains[d].sr_count = SR_PER_DOMAIN_LONG
    /\ audit_events[Len(audit_events)].type = "SR"

\* No domain whose first free-text answer was ignored for latency has been
\* served, or has answered, a second free-text item.
IgnoredFirstOpenIsLast ==
    \A d \in DomainSet :
        (/\ domains[d].open_contrib # <<>>
         /\ domains[d].open_contrib[1].ignored = "latency")
          => /\ domains[d].open_count = 1
             /\ ~(current # NoItem /\ current.type = "OPEN" /\ current.domain = d)

\* C40: a free-text answer submitted through answer_current without a
\* response time is treated as latency 0 and therefore ignored for latency:
\* the domain's ability and information are unchanged, and the domain can
\* never become eligible for a second free-text item if this was its first.
OpenAnswerWithoutTimeIgnored ==
    [][/\ (/\ Len(audit_events') = Len(audit_events) + 1
           /\ audit_events'[Len(audit_events')].type = "OPEN"
           /\ audit_events'[Len(audit_events')].latency_ms = 0)
             => LET d == audit_events'[Len(audit_events')].domain
                    contrib == domains'[d].open_contrib
                IN  /\ domains'[d].theta = domains[d].theta
                    /\ domains'[d].info_total = domains[d].info_total
                    /\ domains'[d].open_info_total = domains[d].open_info_total
                    /\ domains'[d].se = domains[d].se
                    /\ domains'[d].open_count = domains[d].open_count + 1
                    /\ contrib[Len(contrib)].ignored = "latency"
                    /\ contrib[Len(contrib)].dtheta = 0
       /\ IgnoredFirstOpenIsLast']_vars

\* A domain whose first free-text answer came without a response time and
\* was ignored, although it earned the credit the second gate asks for; the
\* domain has since brought its standard error down to the second gate's and
\* is served an objective item.
SecondOpenHeldBack ==
    \E d \in DomainSet :
        /\ domains[d].open_count = 1
        /\ domains[d].open_contrib[1].ignored = "latency"
        /\ domains[d].open_contrib[1].r >= 600
        /\ \E i \in 1..Len(audit_events) :
              /\ audit_events[i].type = "OPEN"
              /\ audit_events[i].domain = d
              /\ audit_events[i].latency_ms = 0
        /\ domains[d].se <= 300
        /\ last_item_type \in {"MCQ", "SJT"}
        /\ current # NoItem
        /\ current.type \in {"MCQ", "SJT"}

====
